---- MODULE Spec2Model ----
(***************************************************************************)
(* script2json: the streaming pipeline of src/main.go (lines 1-527).       *)
(*                                                                         *)
(*   scriptFifoReader -> scriptFifoByteChan -> lineEditor                  *)
(*        -> commandOutputChan -> recordCreator -> stdout                  *)
(*   commandFifoReader -> commandChan -> recordCreator                     *)
(*   signal handler: reading flag, 0x04 marker, the two reset channels     *)
(*                                                                         *)
(* Bytes are naturals 0..255, strings are sequences of bytes.  Every       *)
(* goroutine is a process with a program counter; a step is one access to  *)
(* shared state (a channel, the atomic flag, the mutex) together with the  *)
(* local statements around it.                                             *)
(***************************************************************************)
EXTENDS Integers, Sequences, FiniteSets, TLC

(***************************************************************************)
(* Byte constants, src/main.go:30-38.                                      *)
(***************************************************************************)
EOF == 4
ESC == 27
BACKSPACE == 8
DEL == 127
CSI == 91
ARROW_LEFT == 68
ARROW_RIGHT == 67
LF == 10
CR == 13

(***************************************************************************)
(* Bounds of the model.                                                    *)
(***************************************************************************)
\* capacity of scriptFifoByteChan in the model (1024 in main.go:101)
ByteChanCap == 2
\* capacity of commandOutputChan and of commandChan (main.go:104, 106)
OutputChanCap == 1
CommandChanCap == 1
\* number of tokens of a script fed to the editor alone (SpecEd)
MaxTokens == 3

\* a variant of the send that does not wait for room
HasRoom_Mut(ch, cap) == TRUE

\* a send on a channel made with `make(chan T, cap)` (main.go:101-106)
\* proceeds when the channel holds fewer than cap items and waits otherwise
HasRoom(ch, cap) == Len(ch) < cap

(***************************************************************************)
(* Pure helpers on byte strings.                                           *)
(***************************************************************************)
\* bytes.HasSuffix(seq, []byte{c})
HasSuffix(seq, c) == Len(seq) > 0 /\ seq[Len(seq)] = c

\* bytes.Contains(seq, sub)
Contains(seq, sub) ==
    \E i \in 0..(Len(seq) - Len(sub)) :
        \A j \in 1..Len(sub) : seq[i + j] = sub[j]

\* the literal "?1049" of handleCSI
AltScreenParam == <<63, 49, 48, 52, 57>>

\* a variant that ends a CSI sequence on a letter A-Z only
IsCSIFinal_Mut(b) == b >= 65 /\ b <= 90

\* the test that ends a CSI sequence, main.go:384
IsCSIFinal(b) ==
    (b >= 97 /\ b <= 122) \/ (b >= 65 /\ b <= 90) \/ b = 126

\* main.go:428, printable characters
IsPrintable(b) == b >= 32 /\ b < 127

\* a variant that overwrites the byte under the cursor instead of shifting
insertByte_Mut(buf, cur, b) ==
    IF cur = Len(buf)
    THEN [buffer |-> Append(buf, b), cursor |-> cur + 1]
    ELSE [buffer |-> [buf EXCEPT ![cur + 1] = b], cursor |-> cur + 1]

\* insertByte, main.go:370-379.  Go index cursor is TLA+ index cursor + 1.
insertByte(buf, cur, b) ==
    IF cur = Len(buf)
    THEN [buffer |-> Append(buf, b), cursor |-> cur + 1]
    ELSE LET grown == Append(buf, 0)
             shifted == [i \in 1..Len(grown) |->
                            IF i > cur + 1 THEN grown[i - 1] ELSE grown[i]]
         IN [buffer |-> [shifted EXCEPT ![cur + 1] = b], cursor |-> cur + 1]

\* a variant that never deletes the first byte of the buffer
deleteBefore_Mut(buf, cur) ==
    IF cur > 1
    THEN [buffer |-> SubSeq(buf, 1, cur - 1) \o SubSeq(buf, cur + 1, Len(buf)),
          cursor |-> cur - 1]
    ELSE [buffer |-> buf, cursor |-> cur]

\* the BACKSPACE/DEL case, main.go:418-421
deleteBefore(buf, cur) ==
    IF cur > 0
    THEN [buffer |-> SubSeq(buf, 1, cur - 1) \o SubSeq(buf, cur + 1, Len(buf)),
          cursor |-> cur - 1]
    ELSE [buffer |-> buf, cursor |-> cur]

\* a variant whose right arrow moves the cursor without looking at the buffer
handleCSI_Mut(seq, buf, cur, alt) ==
    IF Len(seq) > 0 /\ seq[Len(seq)] = ARROW_RIGHT
    THEN [cursor |-> cur + 1, inAlternateScreen |-> alt]
    ELSE IF Len(seq) > 0 /\ seq[Len(seq)] = ARROW_LEFT
    THEN [cursor |-> IF cur > 0 THEN cur - 1 ELSE cur, inAlternateScreen |-> alt]
    ELSE [cursor |-> cur, inAlternateScreen |-> alt]

\* a variant that takes every other final byte for a left arrow
handleCSI_MutAny(seq, buf, cur, alt) ==
    IF HasSuffix(seq, 104) /\ Contains(seq, AltScreenParam)
    THEN [cursor |-> cur, inAlternateScreen |-> TRUE]
    ELSE IF HasSuffix(seq, 108) /\ Contains(seq, AltScreenParam)
    THEN [cursor |-> cur, inAlternateScreen |-> FALSE]
    ELSE IF Len(seq) > 0 /\ seq[Len(seq)] = ARROW_RIGHT
    THEN [cursor |-> IF cur < Len(buf) THEN cur + 1 ELSE cur,
          inAlternateScreen |-> alt]
    ELSE [cursor |-> IF cur > 0 THEN cur - 1 ELSE cur, inAlternateScreen |-> alt]

\* handleCSI, main.go:444-461: the cursor and the alternate-screen flag
\* after the completed sequence seq (the buffer is only read)
handleCSI(seq, buf, cur, alt) ==
    IF HasSuffix(seq, 104) /\ Contains(seq, AltScreenParam)
    THEN [cursor |-> cur, inAlternateScreen |-> TRUE]
    ELSE IF HasSuffix(seq, 108) /\ Contains(seq, AltScreenParam)
    THEN [cursor |-> cur, inAlternateScreen |-> FALSE]
    ELSE IF Len(seq) > 0 /\ seq[Len(seq)] = ARROW_LEFT
    THEN [cursor |-> IF cur > 0 THEN cur - 1 ELSE cur, inAlternateScreen |-> alt]
    ELSE IF Len(seq) > 0 /\ seq[Len(seq)] = ARROW_RIGHT
    THEN [cursor |-> IF cur < Len(buf) THEN cur + 1 ELSE cur,
          inAlternateScreen |-> alt]
    ELSE [cursor |-> cur, inAlternateScreen |-> alt]

\* a variant that looks for the end-of-command byte before it looks at the
\* alternate screen
Dispatch_Mut(csi, alt, b) ==
    IF csi THEN (IF IsCSIFinal(b) THEN "csi" ELSE "recv")
    ELSE IF b = EOF THEN "eof"
    ELSE IF alt /\ b # ESC THEN "recv"
    ELSE IF b = ESC THEN "esc"
    ELSE IF b = BACKSPACE \/ b = DEL THEN "del"
    ELSE IF b = LF \/ b = CR THEN "ins"
    ELSE IF IsPrintable(b) THEN "ins"
    ELSE "recv"

\* The branch the loop body of lineEditor takes for byte b, main.go:382-433:
\* where the loop goes after it has received b.
Dispatch(csi, alt, b) ==
    IF csi THEN (IF IsCSIFinal(b) THEN "csi" ELSE "recv")
    ELSE IF alt /\ b # ESC THEN "recv"
    ELSE IF b = EOF THEN "eof"
    ELSE IF b = ESC THEN "esc"
    ELSE IF b = BACKSPACE \/ b = DEL THEN "del"
    ELSE IF b = LF \/ b = CR THEN "ins"
    ELSE IF IsPrintable(b) THEN "ins"
    ELSE "recv"

(***************************************************************************)
(* State.                                                                  *)
(***************************************************************************)
VARIABLES
    \* shared by the goroutines
    reading,                \* atomic.Bool, main.go:42
    recordID,               \* atomic.Uint64, main.go:45
    resetChan,              \* tokens pending in resetChan (cap 1), main.go:48
    recordCreatorResetChan, \* tokens pending (cap 1), main.go:51
    scriptFifoByteChan,     \* buffered channel of bytes, main.go:101
    byteClosed,             \* close(scriptFifoByteChan) has run, main.go:230
    commandOutputChan,      \* buffered channel of strings, main.go:104
    outClosed,              \* close(commandOutputChan) has run, main.go:435
    commandChan,            \* buffered channel of strings, main.go:106
    stdout,                 \* the records printed, in order, main.go:525
    \* the signal handler goroutine, main.go:180-224
    sigs, ctrlpc, wasReading,
    \* scriptFifoReader, main.go:229-253
    scriptFifo, bspc, bsbuf,
    \* commandFifoReader, main.go:257-306
    commandFifo, cspc, commandBuffer,
    \* lineEditor, main.go:312-436
    edpc, edb, buffer, cursor, inCSI, csiBuffer, inAlternateScreen, mu,
    \* the reset listener of lineEditor, main.go:364-368
    rlpc,
    \* recordCreator and its reset goroutine, main.go:467-527
    rcpc, rcOutput, rrpc,
    \* the writers and readers around the program
    script,                 \* bytes a driver has still to feed
    fed,                    \* bytes the driver has fed
    outs,                   \* outputs a driver has received
    shpc, cycle, synced,    \* the cooperating shell
    \* history of the run
    lastHandled,            \* the signal the handler completed last
    nSignals, nBytes, nCmdBytes,
    stopHadBytes,           \* per marker of SIGUSR2: was a byte sent since the last?
    admittedSince,          \* a byte was sent since the last such marker
    resetSeen,              \* a SIGHUP has been taken (the three above then stay cleared)
    swallowed,              \* a marker was consumed without an output
    resetDone,              \* "yes": a resetState has returned and no output was
                            \* sent since, but for that of a marker the loop held
                            \* when it returned ("held"); "no" otherwise
    sinceReset              \* items put on scriptFifoByteChan since then

sharedVars == <<reading, recordID, resetChan, recordCreatorResetChan,
                scriptFifoByteChan, byteClosed, commandOutputChan, outClosed,
                commandChan, stdout>>
ctrlVars == <<sigs, ctrlpc, wasReading>>
bsVars == <<scriptFifo, bspc, bsbuf>>
csVars == <<commandFifo, cspc, commandBuffer>>
edVars == <<edpc, edb, buffer, cursor, inCSI, csiBuffer, inAlternateScreen>>
rcVars == <<rcpc, rcOutput, rrpc>>
driverVars == <<script, fed, outs>>
shellVars == <<shpc, cycle, synced>>
histVars == <<lastHandled, nSignals, nBytes, nCmdBytes, stopHadBytes,
              admittedSince, resetSeen, swallowed, resetDone, sinceReset>>

vars == <<sharedVars, ctrlVars, bsVars, csVars, edVars, mu, rlpc, rcVars,
          driverVars, shellVars, histVars>>

(***************************************************************************)
(* lineEditor: the byte-processing loop, main.go:381-435.                  *)
(***************************************************************************)
\* what every step of the loop leaves alone
EdFrame ==
    UNCHANGED <<reading, recordID, resetChan, recordCreatorResetChan,
                byteClosed, commandChan, stdout, ctrlVars, bsVars, csVars,
                rlpc, rcVars, shellVars, script, fed, outs, lastHandled,
                nSignals, nBytes, nCmdBytes, stopHadBytes, admittedSince,
                resetSeen, sinceReset>>

\* a step that neither emits nor consumes a marker
EdHistSame == UNCHANGED <<swallowed, resetDone>>

\* `for b := range scriptFifoByteChan` delivers b; lines 382-400 choose the
\* branch.  Inside a CSI sequence b is appended to csiBuffer (line 383).
EdRecv ==
    /\ edpc = "recv"
    /\ scriptFifoByteChan # <<>>
    /\ LET b == Head(scriptFifoByteChan)
           next == Dispatch(inCSI, inAlternateScreen, b)
       IN /\ scriptFifoByteChan' = Tail(scriptFifoByteChan)
          /\ edpc' = next
          /\ edb' = IF next = "ins" THEN b ELSE 0
          /\ csiBuffer' = IF inCSI THEN Append(csiBuffer, b) ELSE csiBuffer
          /\ inCSI' = IF inCSI /\ IsCSIFinal(b) THEN FALSE ELSE inCSI
          /\ swallowed' = (~resetSeen /\ (swallowed \/ (b = EOF /\ next # "eof")))
    /\ UNCHANGED <<buffer, cursor, inAlternateScreen, mu, commandOutputChan,
                   outClosed, resetDone>>
    /\ EdFrame

\* a variant that sends what is left in the buffer before the close
EmittedAtClose_Mut(ch, buf) == IF buf # <<>> THEN Append(ch, buf) ELSE ch

\* lines 434-435: nothing is sent between the end of the loop and the close
EmittedAtClose(ch, buf) == ch

\* the range loop ends on the closed, empty channel; line 435
EdClose ==
    /\ edpc = "recv"
    /\ scriptFifoByteChan = <<>>
    /\ byteClosed
    /\ edpc' = "done"
    /\ outClosed' = TRUE
    /\ commandOutputChan' = EmittedAtClose(commandOutputChan, buffer)
    /\ UNCHANGED <<edb, buffer, cursor, inCSI, csiBuffer, inAlternateScreen,
                   mu, scriptFifoByteChan>>
    /\ EdHistSame
    /\ EdFrame

\* lines 386-389: the completed sequence is handled under the mutex
EdCSI ==
    /\ edpc = "csi"
    /\ mu = "free"
    /\ LET r == handleCSI(csiBuffer, buffer, cursor, inAlternateScreen)
       IN /\ cursor' = r.cursor
          /\ inAlternateScreen' = r.inAlternateScreen
    /\ csiBuffer' = <<>>
    /\ edpc' = "recv"
    /\ UNCHANGED <<edb, buffer, inCSI, mu, scriptFifoByteChan,
                   commandOutputChan, outClosed>>
    /\ EdHistSame
    /\ EdFrame

\* line 402: mu.Lock() of the EOF case
EdEofLock ==
    /\ edpc = "eof"
    /\ mu = "free"
    /\ mu' = "loop"
    /\ edpc' = "eof_send"
    /\ UNCHANGED <<edb, buffer, cursor, inCSI, csiBuffer, inAlternateScreen,
                   scriptFifoByteChan, commandOutputChan, outClosed>>
    /\ EdHistSame
    /\ EdFrame

\* a variant that sends no empty output
Emitted_Mut(ch, buf) == IF buf = <<>> THEN ch ELSE Append(ch, buf)

\* line 403: commandOutputChan <- string(buffer), the empty string included
Emitted(ch, buf) == Append(ch, buf)

\* lines 403-406: the send on commandOutputChan, made with the mutex held
EdEofSend ==
    /\ edpc = "eof_send"
    /\ HasRoom(commandOutputChan, OutputChanCap)
    /\ commandOutputChan' = Emitted(commandOutputChan, buffer)
    /\ buffer' = <<>>
    /\ cursor' = 0
    /\ mu' = "free"
    /\ edpc' = "recv"
    /\ resetDone' = IF resetDone = "held" THEN "yes" ELSE "no"
    /\ UNCHANGED <<edb, inCSI, csiBuffer, inAlternateScreen,
                   scriptFifoByteChan, outClosed, swallowed>>
    /\ EdFrame

\* a variant for which every byte after ESC opens a CSI sequence
OpensCSI_Mut(b2) == TRUE

\* line 412: if b2 == CSI
OpensCSI(b2) == b2 = CSI

\* lines 408-415: the byte after ESC is received and dropped; '[' opens a
\* CSI sequence
EdEsc ==
    /\ edpc = "esc"
    /\ scriptFifoByteChan # <<>>
    /\ LET b2 == Head(scriptFifoByteChan)
       IN /\ inCSI' = IF OpensCSI(b2) THEN TRUE ELSE inCSI
          /\ csiBuffer' = IF OpensCSI(b2) THEN <<>> ELSE csiBuffer
          /\ swallowed' = (~resetSeen /\ (swallowed \/ b2 = EOF))
    /\ scriptFifoByteChan' = Tail(scriptFifoByteChan)
    /\ edpc' = "recv"
    /\ UNCHANGED <<edb, buffer, cursor, inAlternateScreen, mu,
                   commandOutputChan, outClosed, resetDone>>
    /\ EdFrame

\* lines 409-411: the channel was closed while waiting for that byte
EdEscClosed ==
    /\ edpc = "esc"
    /\ scriptFifoByteChan = <<>>
    /\ byteClosed
    /\ edpc' = "recv"
    /\ UNCHANGED <<edb, buffer, cursor, inCSI, csiBuffer, inAlternateScreen,
                   mu, scriptFifoByteChan, commandOutputChan, outClosed>>
    /\ EdHistSame
    /\ EdFrame

\* lines 416-422
EdDel ==
    /\ edpc = "del"
    /\ mu = "free"
    /\ LET r == deleteBefore(buffer, cursor)
       IN /\ buffer' = r.buffer
          /\ cursor' = r.cursor
    /\ edpc' = "recv"
    /\ UNCHANGED <<edb, inCSI, csiBuffer, inAlternateScreen, mu,
                   scriptFifoByteChan, commandOutputChan, outClosed>>
    /\ EdHistSame
    /\ EdFrame

\* lines 423-432
EdIns ==
    /\ edpc = "ins"
    /\ mu = "free"
    /\ LET r == insertByte(buffer, cursor, edb)
       IN /\ buffer' = r.buffer
          /\ cursor' = r.cursor
    /\ edpc' = "recv"
    /\ edb' = 0
    /\ UNCHANGED <<inCSI, csiBuffer, inAlternateScreen, mu,
                   scriptFifoByteChan, commandOutputChan, outClosed>>
    /\ EdHistSame
    /\ EdFrame

(***************************************************************************)
(* The loop of lineEditor run by itself on a byte string: the same         *)
(* branches, taken one byte after the other from the state st.  esc says   *)
(* that the receive of line 408 is waiting for its byte; outputs collects  *)
(* what line 403 sends.                                                    *)
(***************************************************************************)
EdInitial ==
    [buffer |-> <<>>, cursor |-> 0, inCSI |-> FALSE, csiBuffer |-> <<>>,
     inAlternateScreen |-> FALSE, esc |-> FALSE, outputs |-> <<>>]

EdStep(st, b) ==
    IF st.esc
    THEN [st EXCEPT !.esc = FALSE,
                    !.inCSI = IF b = CSI THEN TRUE ELSE st.inCSI,
                    !.csiBuffer = IF b = CSI THEN <<>> ELSE st.csiBuffer]
    ELSE LET next == Dispatch(st.inCSI, st.inAlternateScreen, b)
             seq == IF st.inCSI THEN Append(st.csiBuffer, b) ELSE st.csiBuffer
         IN CASE next = "csi" ->
                    LET r == handleCSI(seq, st.buffer, st.cursor,
                                       st.inAlternateScreen)
                    IN [st EXCEPT !.inCSI = FALSE, !.csiBuffer = <<>>,
                                  !.cursor = r.cursor,
                                  !.inAlternateScreen = r.inAlternateScreen]
              [] next = "eof" ->
                    [st EXCEPT !.outputs = Append(st.outputs, st.buffer),
                               !.buffer = <<>>, !.cursor = 0]
              [] next = "esc" -> [st EXCEPT !.esc = TRUE]
              [] next = "del" ->
                    LET r == deleteBefore(st.buffer, st.cursor)
                    IN [st EXCEPT !.buffer = r.buffer, !.cursor = r.cursor]
              [] next = "ins" ->
                    LET r == insertByte(st.buffer, st.cursor, b)
                    IN [st EXCEPT !.buffer = r.buffer, !.cursor = r.cursor]
              [] OTHER -> [st EXCEPT !.csiBuffer = seq]

Range(seq) == {seq[i] : i \in DOMAIN seq}

FirstOf(seq) == IF seq = <<>> THEN <<>> ELSE <<seq[1]>>

RECURSIVE EdFold(_, _)
EdFold(bs, st) ==
    IF bs = <<>> THEN st ELSE EdFold(Tail(bs), EdStep(st, Head(bs)))

(***************************************************************************)
(* lineEditor: the reset listener, main.go:364-368, with resetState        *)
(* (main.go:335-347) and drainChannel (main.go:321-332).                   *)
(***************************************************************************)
RlFrame ==
    UNCHANGED <<reading, recordID, recordCreatorResetChan, byteClosed,
                commandOutputChan, outClosed, commandChan, stdout, ctrlVars,
                bsVars, csVars, edpc, edb, rcVars, driverVars, shellVars>>

\* `for range resetChan` receives a token
RlRecv ==
    /\ rlpc = "idle"
    /\ resetChan > 0
    /\ resetChan' = resetChan - 1
    /\ rlpc' = "lock"
    /\ UNCHANGED <<scriptFifoByteChan, buffer, cursor, inCSI, csiBuffer,
                   inAlternateScreen, mu, histVars>>
    /\ RlFrame

\* lines 336-343: the mutex is taken and the state cleared
RlLock ==
    /\ rlpc = "lock"
    /\ mu = "free"
    /\ mu' = "reset"
    /\ buffer' = <<>>
    /\ csiBuffer' = <<>>
    /\ cursor' = 0
    /\ inCSI' = FALSE
    /\ inAlternateScreen' = FALSE
    /\ rlpc' = "drain"
    /\ UNCHANGED <<resetChan, scriptFifoByteChan, histVars>>
    /\ RlFrame

\* drainChannel: one pending byte is received and dropped, lines 325-326
RlDrain ==
    /\ rlpc = "drain"
    /\ scriptFifoByteChan # <<>>
    /\ scriptFifoByteChan' = Tail(scriptFifoByteChan)
    /\ UNCHANGED <<resetChan, rlpc, buffer, cursor, inCSI, csiBuffer,
                   inAlternateScreen, mu, histVars>>
    /\ RlFrame

\* a variant of resetState that returns without unlocking
Released_Mut == "reset"

\* line 337: `defer mu.Unlock()`, the mutex after resetState has returned
Released == "free"

\* drainChannel: nothing is pending (the default case, lines 327-329);
\* resetState returns and the deferred Unlock runs
RlDone ==
    /\ rlpc = "drain"
    /\ scriptFifoByteChan = <<>>
    /\ ~byteClosed
    /\ mu' = Released
    /\ rlpc' = "idle"
    /\ resetDone' = IF edpc = "eof" THEN "held" ELSE "yes"
    /\ sinceReset' = <<>>
    /\ UNCHANGED <<resetChan, scriptFifoByteChan, buffer, cursor, inCSI,
                   csiBuffer, inAlternateScreen, lastHandled, nSignals,
                   nBytes, nCmdBytes, stopHadBytes, admittedSince, resetSeen,
                   swallowed>>
    /\ RlFrame

(***************************************************************************)
(* The signal handler goroutine, main.go:180-224.  A signal is taken from  *)
(* the channel sigs (cap 1, main.go:177); the argument of the first step   *)
(* of each handler is what is left in that channel.                        *)
(***************************************************************************)
CtrlFrame ==
    UNCHANGED <<recordID, byteClosed, commandOutputChan, outClosed,
                commandChan, stdout, bsVars, csVars, edVars, mu, rlpc, rcVars,
                driverVars, shellVars, nBytes, nCmdBytes, resetDone>>

\* what the history keeps of an item put on scriptFifoByteChan
Noted(b) == IF resetDone # "no" THEN Append(sinceReset, b) ELSE sinceReset

\* a variant that queues a token behind a pending one
OfferToken_Mut(ch) == ch + 1

\* the non-blocking send of a reset token: dropped when one is pending
OfferToken(ch) == IF ch = 0 THEN 1 ELSE ch

\* a variant that toggles the flag
FlagAfterStart_Mut(flag) == ~flag

\* line 185: reading.Store(true), whatever the flag was
FlagAfterStart(flag) == TRUE

\* SIGUSR1, lines 183-185
CtrlStart(rest) ==
    /\ ctrlpc = "idle"
    /\ sigs' = rest
    /\ reading' = FlagAfterStart(reading)
    /\ lastHandled' = "start"
    /\ nSignals' = nSignals + 1
    /\ UNCHANGED <<ctrlpc, wasReading, resetChan, recordCreatorResetChan,
                   scriptFifoByteChan, stopHadBytes, admittedSince,
                   swallowed, resetSeen>>
    /\ UNCHANGED sinceReset
    /\ CtrlFrame

\* SIGUSR2, lines 186-188: the flag is cleared first
CtrlStop(rest) ==
    /\ ctrlpc = "idle"
    /\ sigs' = rest
    /\ reading' = FALSE
    /\ ctrlpc' = "usr2_send"
    /\ nSignals' = nSignals + 1
    /\ UNCHANGED <<wasReading, resetChan, recordCreatorResetChan,
                   scriptFifoByteChan, lastHandled, stopHadBytes,
                   admittedSince, swallowed, resetSeen>>
    /\ UNCHANGED sinceReset
    /\ CtrlFrame

\* line 189: scriptFifoByteChan <- EOF
CtrlStopSend ==
    /\ ctrlpc = "usr2_send"
    /\ HasRoom(scriptFifoByteChan, ByteChanCap)
    /\ ~byteClosed
    /\ scriptFifoByteChan' = Append(scriptFifoByteChan, EOF)
    /\ ctrlpc' = "idle"
    /\ lastHandled' = "stop"
    /\ stopHadBytes' = IF resetSeen THEN <<>>
                       ELSE Append(stopHadBytes, admittedSince)
    /\ admittedSince' = FALSE
    /\ UNCHANGED <<sigs, wasReading, reading, resetChan,
                   recordCreatorResetChan, nSignals, resetSeen, swallowed>>
    /\ sinceReset' = Noted(EOF)
    /\ CtrlFrame

\* SIGHUP, lines 190-194
CtrlReset(rest) ==
    /\ ctrlpc = "idle"
    /\ sigs' = rest
    /\ wasReading' = reading
    /\ reading' = FALSE
    /\ ctrlpc' = "hup_editor"
    /\ nSignals' = nSignals + 1
    /\ resetSeen' = TRUE
    /\ stopHadBytes' = <<>>
    /\ admittedSince' = FALSE
    /\ swallowed' = FALSE
    /\ UNCHANGED <<resetChan, recordCreatorResetChan, scriptFifoByteChan,
                   lastHandled>>
    /\ UNCHANGED sinceReset
    /\ CtrlFrame

\* lines 196-201
CtrlResetEditor ==
    /\ ctrlpc = "hup_editor"
    /\ resetChan' = OfferToken(resetChan)
    /\ ctrlpc' = "hup_creator"
    /\ UNCHANGED <<sigs, wasReading, reading, recordCreatorResetChan,
                   scriptFifoByteChan, lastHandled, nSignals, stopHadBytes,
                   admittedSince, swallowed, resetSeen>>
    /\ UNCHANGED sinceReset
    /\ CtrlFrame

\* lines 203-208, and the test of line 211
CtrlResetCreator ==
    /\ ctrlpc = "hup_creator"
    /\ recordCreatorResetChan' = OfferToken(recordCreatorResetChan)
    /\ ctrlpc' = IF wasReading THEN "hup_send" ELSE "idle"
    /\ lastHandled' = IF wasReading THEN lastHandled ELSE "reset"
    /\ UNCHANGED <<sigs, wasReading, reading, resetChan, scriptFifoByteChan,
                   nSignals, stopHadBytes, admittedSince, swallowed,
                   resetSeen>>
    /\ UNCHANGED sinceReset
    /\ CtrlFrame

\* line 212: scriptFifoByteChan <- EOF
CtrlResetSend ==
    /\ ctrlpc = "hup_send"
    /\ HasRoom(scriptFifoByteChan, ByteChanCap)
    /\ ~byteClosed
    /\ scriptFifoByteChan' = Append(scriptFifoByteChan, EOF)
    /\ ctrlpc' = "idle"
    /\ wasReading' = FALSE
    /\ lastHandled' = "reset"
    /\ UNCHANGED <<sigs, reading, resetChan, recordCreatorResetChan,
                   nSignals, stopHadBytes, admittedSince, swallowed,
                   resetSeen>>
    /\ sinceReset' = Noted(EOF)
    /\ CtrlFrame

(***************************************************************************)
(* scriptFifoReader, main.go:229-253.                                      *)
(***************************************************************************)
BsFrame ==
    UNCHANGED <<reading, recordID, resetChan, recordCreatorResetChan,
                byteClosed, commandOutputChan, outClosed, commandChan, stdout,
                ctrlVars, csVars, edVars, mu, rlpc, rcVars, driverVars,
                shellVars, lastHandled, nSignals, nCmdBytes, stopHadBytes,
                resetSeen, swallowed, resetDone>>

\* a variant that forwards whatever the flag
Forward_Mut(flag) == TRUE

\* line 249: a byte is forwarded when the flag, as loaded, is true
Forward(flag) == flag

\* line 242: f.Read delivers byte b; rest is what stays in the FIFO
BsRead(b, rest) ==
    /\ bspc = "read"
    /\ bsbuf' = b
    /\ scriptFifo' = rest
    /\ bspc' = "check"
    /\ nBytes' = nBytes + 1
    /\ UNCHANGED <<scriptFifoByteChan, sinceReset, admittedSince>>
    /\ BsFrame

\* line 249: reading.Load()
BsCheck ==
    /\ bspc = "check"
    /\ bspc' = IF Forward(reading) THEN "send" ELSE "read"
    /\ bsbuf' = IF Forward(reading) THEN bsbuf ELSE 0
    /\ UNCHANGED <<scriptFifo, scriptFifoByteChan, nBytes, sinceReset,
                   admittedSince>>
    /\ BsFrame

\* line 250: scriptFifoByteChan <- buf[0]
BsSend ==
    /\ bspc = "send"
    /\ HasRoom(scriptFifoByteChan, ByteChanCap)
    /\ ~byteClosed
    /\ scriptFifoByteChan' = Append(scriptFifoByteChan, bsbuf)
    /\ sinceReset' = Noted(bsbuf)
    /\ admittedSince' = ~resetSeen
    /\ bspc' = "read"
    /\ bsbuf' = 0
    /\ UNCHANGED <<scriptFifo, nBytes>>
    /\ BsFrame

(***************************************************************************)
(* commandFifoReader, main.go:257-306.                                     *)
(***************************************************************************)
CsFrame ==
    UNCHANGED <<reading, recordID, resetChan, recordCreatorResetChan,
                scriptFifoByteChan, byteClosed, commandOutputChan, outClosed,
                stdout, ctrlVars, bsVars, edVars, mu, rlpc, rcVars,
                driverVars, shellVars, lastHandled, nSignals, nBytes,
                stopHadBytes, admittedSince, resetSeen, swallowed, resetDone,
                sinceReset>>

\* a variant that sends the empty line too
LineComplete_Mut(buf) == TRUE

\* line 291: a newline completes a command when bytes were accumulated
LineComplete(buf) == Len(buf) > 0

\* lines 288-300 for one byte c of a read; rest is what stays in the FIFO
CsRead(c, rest) ==
    /\ cspc = "read"
    /\ commandFifo' = rest
    /\ nCmdBytes' = nCmdBytes + 1
    /\ IF c = LF
       THEN /\ cspc' = IF LineComplete(commandBuffer) THEN "send" ELSE "read"
            /\ UNCHANGED commandBuffer
       ELSE /\ commandBuffer' = Append(commandBuffer, c)
            /\ UNCHANGED cspc
    /\ UNCHANGED commandChan
    /\ CsFrame

\* lines 292-294: commandChan <- string(commandBuffer)
CsSend ==
    /\ cspc = "send"
    /\ HasRoom(commandChan, CommandChanCap)
    /\ commandChan' = Append(commandChan, commandBuffer)
    /\ commandBuffer' = <<>>
    /\ cspc' = "read"
    /\ UNCHANGED <<commandFifo, nCmdBytes>>
    /\ CsFrame

(***************************************************************************)
(* recordCreator, main.go:467-527.                                         *)
(***************************************************************************)
RcFrame ==
    UNCHANGED <<reading, resetChan, scriptFifoByteChan, byteClosed,
                outClosed, ctrlVars, bsVars, csVars, edVars, mu, rlpc,
                driverVars, shellVars, histVars>>

\* strconv.FormatUint(n, 10): the decimal digits of n as bytes
RECURSIVE FormatUint(_)
FormatUint(n) ==
    IF n < 10 THEN <<48 + n>>
    ELSE Append(FormatUint(n \div 10), 48 + (n % 10))

\* a variant that steps the counter by two
NextRecordID_Mut(n) == n + 2

\* recordID.Add(1), line 512
NextRecordID(n) == n + 1

\* a variant that never looks at commandChan
TakeCommand_Mut(ch) == <<>>

\* lines 503-509: the command waiting in commandChan, "" when there is none
TakeCommand(ch) == IF ch # <<>> THEN Head(ch) ELSE <<>>

\* `for output := range commandOutputChan`, line 499
RcRecv ==
    /\ rcpc = "recv"
    /\ commandOutputChan # <<>>
    /\ rcOutput' = Head(commandOutputChan)
    /\ commandOutputChan' = Tail(commandOutputChan)
    /\ rcpc' = "emit"
    /\ UNCHANGED <<recordID, recordCreatorResetChan, commandChan, stdout,
                   rrpc>>
    /\ RcFrame

\* a variant whose records carry no output
RecordOutput_Mut(out) == <<>>

\* line 514: Output: output
RecordOutput(out) == out

\* lines 501-525: the non-blocking take of the command, the new id, the
\* record and its line on stdout
RcEmit ==
    /\ rcpc = "emit"
    /\ LET command == TakeCommand(commandChan)
           id == NextRecordID(recordID)
       IN /\ commandChan' = IF commandChan # <<>> THEN Tail(commandChan)
                            ELSE commandChan
          /\ recordID' = id
          /\ stdout' = Append(stdout, [id |-> FormatUint(id),
                                       command |-> command,
                                       output |-> RecordOutput(rcOutput)])
    /\ rcOutput' = <<>>
    /\ rcpc' = "recv"
    /\ UNCHANGED <<recordCreatorResetChan, commandOutputChan, rrpc>>
    /\ RcFrame

\* the reset goroutine, lines 469-497: a token is received
RrRecv ==
    /\ rrpc = "idle"
    /\ recordCreatorResetChan > 0
    /\ recordCreatorResetChan' = recordCreatorResetChan - 1
    /\ rrpc' = "drain_out"
    /\ UNCHANGED <<recordID, commandOutputChan, commandChan, stdout, rcpc,
                   rcOutput>>
    /\ RcFrame

\* lines 473-481: commandOutputChan is drained
RrDrainOut ==
    /\ rrpc = "drain_out"
    /\ IF commandOutputChan # <<>>
       THEN /\ commandOutputChan' = Tail(commandOutputChan)
            /\ UNCHANGED rrpc
       ELSE /\ ~outClosed
            /\ rrpc' = "drain_cmd"
            /\ UNCHANGED commandOutputChan
    /\ UNCHANGED <<recordID, recordCreatorResetChan, commandChan, stdout,
                   rcpc, rcOutput>>
    /\ RcFrame

\* a variant that starts the counter again on a reset
CounterAfterReset_Mut(n) == 0

\* lines 469-497 do not name recordID: the counter after the drain
CounterAfterReset(n) == n

\* lines 483-495: commandChan is drained; line 493 returns from the goroutine
RrDrainCmd ==
    /\ rrpc = "drain_cmd"
    /\ IF commandChan # <<>>
       THEN /\ commandChan' = Tail(commandChan)
            /\ UNCHANGED rrpc
       ELSE /\ rrpc' = "exited"
            /\ UNCHANGED commandChan
    /\ recordID' = CounterAfterReset(recordID)
    /\ UNCHANGED <<recordCreatorResetChan, commandOutputChan, stdout, rcpc,
                   rcOutput>>
    /\ RcFrame

(***************************************************************************)
(* The state after construction: main.go:42-51, 100-106, 313-318.          *)
(***************************************************************************)
InitProgram ==
    /\ reading = FALSE
    /\ recordID = 0
    /\ resetChan = 0
    /\ recordCreatorResetChan = 0
    /\ scriptFifoByteChan = <<>>
    /\ byteClosed = FALSE
    /\ commandOutputChan = <<>>
    /\ outClosed = FALSE
    /\ commandChan = <<>>
    /\ stdout = <<>>
    /\ sigs = "none" /\ ctrlpc = "idle" /\ wasReading = FALSE
    /\ scriptFifo = <<>> /\ bspc = "read" /\ bsbuf = 0
    /\ commandFifo = <<>> /\ cspc = "read" /\ commandBuffer = <<>>
    /\ edpc = "recv" /\ edb = 0 /\ buffer = <<>> /\ cursor = 0
    /\ inCSI = FALSE /\ csiBuffer = <<>> /\ inAlternateScreen = FALSE
    /\ mu = "free"
    /\ rlpc = "idle"
    /\ rcpc = "recv" /\ rcOutput = <<>> /\ rrpc = "idle"
    /\ lastHandled = "none"
    /\ nSignals = 0 /\ nBytes = 0 /\ nCmdBytes = 0
    /\ stopHadBytes = <<>> /\ admittedSince = FALSE /\ resetSeen = FALSE
    /\ swallowed = FALSE /\ resetDone = "no" /\ sinceReset = <<>>

(***************************************************************************)
(* The editor alone, driven as the unit tests of main_test.go drive it:    *)
(* a goroutine sends the bytes of a script on scriptFifoByteChan and       *)
(* receives the outputs from commandOutputChan.                            *)
(***************************************************************************)
\* the escape sequences the scripts are built from
SeqLeft == <<ESC, CSI, ARROW_LEFT>>
SeqRight == <<ESC, CSI, ARROW_RIGHT>>
SeqGreen == <<ESC, CSI, 51, 50, 109>>
SeqSgrReset == <<ESC, CSI, 48, 109>>
SeqEnterAlt == <<ESC, CSI>> \o AltScreenParam \o <<104>>
SeqExitAlt == <<ESC, CSI>> \o AltScreenParam \o <<108>>

Tokens ==
    { <<97>>, <<98>>, <<LF>>, <<CR>>, <<BACKSPACE>>, <<DEL>>, <<7>>, <<200>>,
      <<ESC>>, <<EOF>>, SeqLeft, SeqRight, SeqGreen, SeqEnterAlt, SeqExitAlt }

RECURSIVE Flatten(_)
Flatten(ts) == IF ts = <<>> THEN <<>> ELSE Head(ts) \o Flatten(Tail(ts))

\* every script of at most MaxTokens tokens, closed by the marker
FreeScripts ==
    { Flatten(ts) \o <<EOF>> :
        ts \in UNION { [1..n -> Tokens] : n \in 0..MaxTokens } }

\* the inputs of the unit tests and of the scenarios of the specification
Str_hello == <<104, 101, 108, 108, 111>>
Str_helo == <<104, 101, 108, 111>>
ScriptBasic == Str_hello \o <<CR, LF, EOF>>
ScriptColour ==
    SeqGreen \o <<102, 105, 108, 101>> \o SeqSgrReset \o <<CR, LF, EOF>>
ScriptBackspace == Str_hello \o <<88, DEL, EOF>>
ScriptCursor == Str_helo \o SeqLeft \o SeqLeft \o <<108, EOF>>
ScriptAlt ==
    <<98, 101>> \o SeqEnterAlt \o <<71, 65>> \o SeqExitAlt \o <<97, 102, EOF>>
ScenarioScripts ==
    {ScriptBasic, ScriptColour, ScriptBackspace, ScriptCursor, ScriptAlt}

InitEd ==
    /\ InitProgram
    /\ script \in FreeScripts \cup ScenarioScripts
    /\ fed = <<>>
    /\ outs = <<>>
    /\ shpc = "off" /\ cycle = 0 /\ synced = TRUE

\* `scriptFifoByteChan <- b` of the tests
DrvFeed ==
    /\ script # <<>>
    /\ Len(scriptFifoByteChan) < ByteChanCap
    /\ scriptFifoByteChan' = Append(scriptFifoByteChan, Head(script))
    /\ fed' = Append(fed, Head(script))
    /\ script' = Tail(script)
    /\ UNCHANGED <<reading, recordID, resetChan, recordCreatorResetChan,
                   byteClosed, commandOutputChan, outClosed, commandChan,
                   stdout, ctrlVars, bsVars, csVars, edVars, mu, rlpc, rcVars,
                   outs, shellVars, histVars>>

\* `output := <-commandOutputChan` of the tests
DrvRecv ==
    /\ commandOutputChan # <<>>
    /\ outs' = Append(outs, Head(commandOutputChan))
    /\ commandOutputChan' = Tail(commandOutputChan)
    /\ UNCHANGED <<reading, recordID, resetChan, recordCreatorResetChan,
                   scriptFifoByteChan, byteClosed, outClosed, commandChan,
                   stdout, ctrlVars, bsVars, csVars, edVars, mu, rlpc, rcVars,
                   script, fed, shellVars, histVars>>

NextEd ==
    \/ DrvFeed \/ DrvRecv
    \/ EdRecv \/ EdCSI \/ EdEofLock \/ EdEofSend \/ EdEsc \/ EdDel \/ EdIns

SpecEd == InitEd /\ [][NextEd]_vars

(***************************************************************************)
(* The whole pipeline under arbitrary signals and input.  A signal is      *)
(* handled as soon as it is taken from sigs, a byte is read as soon as it  *)
(* is written, so sigs and the FIFO stay empty.  The session stream holds  *)
(* letters and ESC (no CSI sequence is ever completed and nothing is       *)
(* deleted: those steps of the editor are checked in SpecEd), and no       *)
(* command is written.                                                     *)
(***************************************************************************)
\* how many signals, session bytes and command bytes a run has
MaxSignals == 3
MaxBytes == 2

\* the bytes of the session stream: a letter, or ESC
StreamBytes == {97, ESC}

Init ==
    /\ InitProgram
    /\ script = <<>> /\ fed = <<>> /\ outs = <<>>
    /\ shpc = "off" /\ cycle = 0 /\ synced = TRUE

Next ==
    \/ (nSignals < MaxSignals /\ CtrlStart(sigs))
    \/ (nSignals < MaxSignals /\ CtrlStop(sigs))
    \/ (nSignals < MaxSignals /\ CtrlReset(sigs))
    \/ CtrlStopSend \/ CtrlResetEditor \/ CtrlResetCreator \/ CtrlResetSend
    \/ (nBytes < MaxBytes /\ \E b \in StreamBytes : BsRead(b, scriptFifo))
    \/ BsCheck \/ BsSend
    \/ EdRecv \/ EdEofLock \/ EdEofSend \/ EdEsc \/ EdIns
    \/ RlRecv \/ RlLock \/ RlDrain \/ RlDone
    \/ RcRecv \/ RcEmit \/ RrRecv \/ RrDrainOut \/ RrDrainCmd

Spec == Init /\ [][Next]_vars

(***************************************************************************)
(* The pipeline with a cooperating shell, as TestEndToEnd and the README   *)
(* drive it: per cycle SIGUSR1, the session bytes on the script FIFO, the  *)
(* command line on the command FIFO, SIGUSR2.  The goroutines take what    *)
(* the shell wrote from the two FIFOs and from sigs.  The shell may take   *)
(* its next step at any time; synced records whether it took every step    *)
(* only after the program had consumed the previous ones, as the sleeps    *)
(* of the test arrange.                                                    *)
(***************************************************************************)
MaxCycles == 2

\* session bytes and command line of cycle k, and what a record should show
CycleBytes(k) == IF k = 1 THEN <<120, DEL, 97>> ELSE <<98>>
CycleCommand(k) == IF k = 1 THEN <<99, LF>> ELSE <<100, LF>>
CycleCommandText(k) == IF k = 1 THEN <<99>> ELSE <<100>>
CycleOutput(k) == IF k = 1 THEN <<97>> ELSE <<98>>

\* signal.Notify on a channel of capacity 1: a signal that finds the
\* channel full is dropped
Deliver(slot, sig) == IF slot = "none" THEN sig ELSE slot

\* the program has consumed all the shell gave it
Settled ==
    /\ sigs = "none" /\ ctrlpc = "idle"
    /\ scriptFifo = <<>> /\ bspc = "read"
    /\ commandFifo = <<>> /\ cspc = "read"

ShFrame ==
    UNCHANGED <<sharedVars, ctrlpc, wasReading, bspc, bsbuf, cspc,
                commandBuffer, edVars, mu, rlpc, rcVars, driverVars,
                histVars>>

\* pkill -USR1
ShStart ==
    /\ shpc = "start"
    /\ sigs' = Deliver(sigs, "usr1")
    /\ shpc' = "bytes"
    /\ synced' = (synced /\ Settled)
    /\ UNCHANGED <<scriptFifo, commandFifo, cycle>>
    /\ ShFrame

\* the output of the command arrives on the script FIFO
ShBytes ==
    /\ shpc = "bytes"
    /\ scriptFifo' = scriptFifo \o CycleBytes(cycle)
    /\ shpc' = "cmd"
    /\ synced' = (synced /\ Settled)
    /\ UNCHANGED <<sigs, commandFifo, cycle>>
    /\ ShFrame

\* PROMPT_COMMAND writes the command line to the command FIFO
ShCmd ==
    /\ shpc = "cmd"
    /\ commandFifo' = commandFifo \o CycleCommand(cycle)
    /\ shpc' = "stop"
    /\ synced' = (synced /\ Settled)
    /\ UNCHANGED <<sigs, scriptFifo, cycle>>
    /\ ShFrame

\* pkill -USR2, and on to the next cycle
ShStop ==
    /\ shpc = "stop"
    /\ sigs' = Deliver(sigs, "usr2")
    /\ shpc' = IF cycle < MaxCycles THEN "start" ELSE "done"
    /\ cycle' = IF cycle < MaxCycles THEN cycle + 1 ELSE cycle
    /\ synced' = (synced /\ Settled)
    /\ UNCHANGED <<scriptFifo, commandFifo>>
    /\ ShFrame

InitProto ==
    /\ InitProgram
    /\ script = <<>> /\ fed = <<>> /\ outs = <<>>
    /\ shpc = "start" /\ cycle = 1 /\ synced = TRUE

NextProto ==
    \/ ShStart \/ ShBytes \/ ShCmd \/ ShStop
    \/ (sigs = "usr1" /\ CtrlStart("none"))
    \/ (sigs = "usr2" /\ CtrlStop("none"))
    \/ CtrlStopSend
    \/ (scriptFifo # <<>> /\ BsRead(Head(scriptFifo), Tail(scriptFifo)))
    \/ BsCheck \/ BsSend
    \/ (commandFifo # <<>> /\ CsRead(Head(commandFifo), Tail(commandFifo)))
    \/ CsSend
    \/ EdRecv \/ EdEofLock \/ EdEofSend \/ EdDel \/ EdIns
    \/ RcRecv \/ RcEmit

SpecProto == InitProto /\ [][NextProto]_vars

(***************************************************************************)
(* Claims about the editor alone (SpecEd).                                 *)
(***************************************************************************)
\* the whole script of the run, and its bytes before the first marker
Whole == fed \o script

RECURSIVE UntilEOF(_)
UntilEOF(bs) ==
    IF bs = <<>> \/ Head(bs) = EOF THEN <<>>
    ELSE <<Head(bs)>> \o UntilEOF(Tail(bs))

Has(bs, b) == \E i \in 1..Len(bs) : bs[i] = b

\* the output the driver saw first, or that waits for it in the channel
FirstOutput ==
    IF outs # <<>> THEN outs[1] ELSE Head(commandOutputChan)
HasFirstOutput == outs # <<>> \/ commandOutputChan # <<>>

\* the driver has fed the whole script and the editor has nothing left to do
Consumed ==
    /\ script = <<>> /\ scriptFifoByteChan = <<>> /\ commandOutputChan = <<>>
    /\ edpc \in {"recv", "esc"}

\* the bytes that end a CSI sequence: A-Z, a-z and '~'
EndsCSI(b) == b \in (65..90) \cup (97..122) \cup {126}

\* the step of the loop that receives a byte at the top of the range loop
EdRecvStep ==
    /\ edpc = "recv"
    /\ scriptFifoByteChan # <<>>
    /\ scriptFifoByteChan' = Tail(scriptFifoByteChan)

\* the reference fold of C6: printable bytes, LF and CR are inserted at the
\* cursor, 0x08 and 0x7F delete the byte before it, the rest is ignored
RECURSIVE RefFold(_, _, _)
RefFold(bs, buf, cur) ==
    IF bs = <<>> THEN buf
    ELSE LET b == Head(bs)
         IN IF (b >= 32 /\ b <= 126) \/ b = 10 \/ b = 13
            THEN RefFold(Tail(bs),
                         SubSeq(buf, 1, cur) \o <<b>> \o SubSeq(buf, cur + 1, Len(buf)),
                         cur + 1)
            ELSE IF (b = 8 \/ b = 127) /\ cur > 0
            THEN RefFold(Tail(bs),
                         SubSeq(buf, 1, cur - 1) \o SubSeq(buf, cur + 1, Len(buf)),
                         cur - 1)
            ELSE RefFold(Tail(bs), buf, cur)

\* C6: for a byte sequence without ESC and without 0x04, fed to the editor
\* in its initial state and followed by one 0x04, the output the editor emits
\* is the reference fold of the sequence (insert printable, LF, CR at the
\* cursor; 0x08 and 0x7F delete before the cursor; ignore the rest).
C6_OutputIsReferenceFold ==
    /\ (HasFirstOutput /\ ~Has(UntilEOF(Whole), ESC))
          => FirstOutput = RefFold(UntilEOF(Whole), <<>>, 0)
    /\ (Consumed /\ ~Has(UntilEOF(Whole), ESC)) => HasFirstOutput

\* a run where a typed byte was deleted again and another one kept
C6_Witness ==
    /\ Whole = <<97, BACKSPACE, 98, EOF>>
    /\ outs = << <<98>> >>

\* C7 (as claimed): while inAlternateScreen is true no step of the editor
\* changes buffer or cursor, whatever bytes other than ESC come in; and the
\* alternate-screen scenario emits the bytes around the region only.
C7_AltScreenLeavesBufferAndCursor ==
    /\ [][inAlternateScreen => (buffer' = buffer /\ cursor' = cursor)]_vars
    /\ []((Whole = ScriptAlt /\ Consumed) => outs = << <<98, 101, 97, 102>> >>)

\* C8: once ESC '[' was taken the editor is inside a CSI sequence; every byte
\* received there is appended to csiBuffer and the buffer is left alone; the
\* first byte in A-Z, a-z, '~' ends the sequence, and after its handler ran
\* inCSI is false and csiBuffer is empty.  The colour scenario emits no byte
\* of ESC[32m or ESC[0m.
C8_CsiBytesNeverReachBuffer ==
    /\ [][(edpc = "esc" /\ edpc' = "recv" /\ Head(scriptFifoByteChan) = CSI)
            => (inCSI' /\ csiBuffer' = <<>> /\ buffer' = buffer)]_vars
    /\ [][(inCSI /\ EdRecvStep)
            => LET b == Head(scriptFifoByteChan)
               IN /\ csiBuffer' = Append(csiBuffer, b)
                  /\ buffer' = buffer
                  /\ inCSI' = ~EndsCSI(b)
                  /\ edpc' = IF EndsCSI(b) THEN "csi" ELSE "recv"]_vars
    /\ [][(edpc = "csi" /\ edpc' = "recv")
            => (buffer' = buffer /\ csiBuffer' = <<>> /\ ~inCSI')]_vars
    /\ []((Whole = ScriptColour /\ Consumed)
            => outs = << <<102, 105, 108, 101, CR, LF>> >>)

\* the colour scenario has run to its output
C8_Witness ==
    /\ Whole = ScriptColour
    /\ outs = << <<102, 105, 108, 101, CR, LF>> >>

\* C9: inserting byte b at cursor c into buffer B gives B[0..c) b B[c..) and
\* cursor c+1; 'helo', two ESC[D, 'l', 0x04 emits 'hello'.
C9_InsertAtCursor ==
    /\ [][(edpc = "ins" /\ edpc' = "recv")
            => /\ buffer' = SubSeq(buffer, 1, cursor) \o <<edb>>
                              \o SubSeq(buffer, cursor + 1, Len(buffer))
               /\ cursor' = cursor + 1]_vars
    /\ []((Whole = ScriptCursor /\ Consumed) => outs = <<Str_hello>>)

\* the cursor scenario has run to its output
C9_Witness ==
    /\ Whole = ScriptCursor
    /\ outs = <<Str_hello>>

\* the loop run by itself agrees with the loop run as a goroutine: once a
\* script is consumed the outputs are those of the fold
EdFoldAgrees ==
    Consumed => outs = EdFold(Whole, EdInitial).outputs

(***************************************************************************)
(* Claims about the whole pipeline (Spec).                                 *)
(***************************************************************************)
\* strconv.ParseUint of a decimal string, as the reader of a record does it
RECURSIVE ParseUint(_)
ParseUint(ds) ==
    IF ds = <<>> THEN 0
    ELSE 10 * ParseUint(SubSeq(ds, 1, Len(ds) - 1)) + (ds[Len(ds)] - 48)

\* C1: the first record printed has id 1 and the ids of two consecutive
\* records differ by exactly one, whatever signals, bytes and resets came.
C1_IdsConsecutive ==
    /\ (stdout # <<>> => ParseUint(stdout[1].id) = 1)
    /\ \A i \in 1..(Len(stdout) - 1) :
          ParseUint(stdout[i + 1].id) = ParseUint(stdout[i].id) + 1

\* two records were printed and a reset was handled in the run
C1_Witness == Len(stdout) >= 2 /\ resetSeen

C4_NoByteBehindMarker ==
    [][lastHandled = "stop" => ~(bspc = "send" /\ bspc' = "read")]_vars

\* nothing is left to do for any goroutine until a signal or a byte comes
Quiet ==
    /\ ctrlpc = "idle" /\ bspc = "read"
    /\ scriptFifoByteChan = <<>> /\ edpc \in {"recv", "esc"}
    /\ commandOutputChan = <<>> /\ rcpc = "recv"

\* the k-th record has the empty output when no byte was sent between the
\* markers k-1 and k
EmptyWhenNoBytes ==
    \A k \in 1..Len(stdout) :
        (k <= Len(stopHadBytes) /\ ~stopHadBytes[k]) => stdout[k].output = <<>>

C10_OutputAfterResetIsRenderingOfLaterBytes ==
    [][(resetDone = "yes" /\ EOF \in Range(sinceReset)
          /\ edpc = "eof_send" /\ edpc' = "recv")
        => <<buffer>> = FirstOf(EdFold(sinceReset, EdInitial).outputs)]_vars

(***************************************************************************)
(* Claims about the pipeline with its shell (SpecProto).                   *)
(***************************************************************************)
\* the k-th record printed is that of cycle k, and when the shell is done
\* and the pipeline has come to rest every cycle has its record
RecordsMatchCycles ==
    /\ Len(stdout) <= MaxCycles
    /\ \A k \in 1..Len(stdout) :
          /\ stdout[k].command = CycleCommandText(k)
          /\ stdout[k].output = CycleOutput(k)
    /\ (shpc = "done" /\ Settled /\ Quiet) => Len(stdout) = MaxCycles

\* C2 (as claimed): when the shell keeps the order SIGUSR1, session bytes,
\* command line, SIGUSR2, the record of each SIGUSR2 carries the command of
\* its cycle and the cleaned bytes of its cycle, however the goroutines
\* interleave.
C2_RecordCarriesCommandAndOutputOfItsCycle == RecordsMatchCycles

\* C2 (amended): the same, for the runs in which the shell takes each step
\* only after the program has consumed what it was given before: the signal
\* handled, the session bytes sent on scriptFifoByteChan, the command line
\* sent on commandChan.
C2_RecordCarriesCommandAndOutputWhenShellWaits ==
    synced => RecordsMatchCycles

\* both cycles done by a shell that waited, both records printed
C2_Witness ==
    /\ synced /\ shpc = "done"
    /\ Len(stdout) = MaxCycles
    /\ stdout[1].command = <<99>> /\ stdout[1].output = <<97>>
    /\ stdout[2].command = <<100>> /\ stdout[2].output = <<98>>

\* C11 (as claimed): every token put on recordCreatorResetChan, the first
\* and every later one, is eventually received by the reset goroutine of
\* recordCreator; so whenever a token is pending that goroutine is still
\* running (waiting for a token or draining).
C11_PendingResetTokenHasReceiver ==
    recordCreatorResetChan > 0 => rrpc # "exited"

(***************************************************************************)
(* The pipeline in the scenario "reset mid-stream": SIGUSR1, the bytes     *)
(* 'garbage' on the script FIFO, SIGHUP while they are on their way,       *)
(* SIGUSR1, the bytes 'hello', SIGUSR2.  But for the SIGHUP, the shell     *)
(* takes each step only when the whole pipeline is at rest.                *)
(***************************************************************************)
Str_garbage == <<103, 97, 114, 98, 97, 103, 101>>

\* every goroutine waits for a signal, a byte, a token or an output
AtRest ==
    /\ Settled /\ Quiet
    /\ mu = "free"
    /\ resetChan = 0 /\ rlpc = "idle"
    /\ recordCreatorResetChan = 0 /\ rrpc \in {"idle", "exited"}

\* kill -USR1, kill -HUP, kill -USR2 in the order of the scenario
ShSignal(from, sig, to) ==
    /\ shpc = from
    /\ sigs' = Deliver(sigs, sig)
    /\ shpc' = to
    /\ UNCHANGED <<scriptFifo, commandFifo, cycle, synced>>
    /\ ShFrame

\* the session writes bs to the script FIFO
ShWrite(from, bs, to) ==
    /\ shpc = from
    /\ scriptFifo' = scriptFifo \o bs
    /\ shpc' = to
    /\ UNCHANGED <<sigs, commandFifo, cycle, synced>>
    /\ ShFrame

InitReset ==
    /\ InitProgram
    /\ script = <<>> /\ fed = <<>> /\ outs = <<>>
    /\ shpc = "start1" /\ cycle = 1 /\ synced = TRUE

NextReset ==
    \/ ShSignal("start1", "usr1", "garbage")
    \/ (AtRest /\ ShWrite("garbage", Str_garbage, "reset"))
    \/ ShSignal("reset", "hup", "start2")
    \/ (AtRest /\ ShSignal("start2", "usr1", "hello"))
    \/ (AtRest /\ ShWrite("hello", Str_hello, "stop"))
    \/ (AtRest /\ ShSignal("stop", "usr2", "done"))
    \/ (sigs = "usr1" /\ CtrlStart("none"))
    \/ (sigs = "usr2" /\ CtrlStop("none"))
    \/ (sigs = "hup" /\ CtrlReset("none"))
    \/ CtrlStopSend \/ CtrlResetEditor \/ CtrlResetCreator \/ CtrlResetSend
    \/ (scriptFifo # <<>> /\ BsRead(Head(scriptFifo), Tail(scriptFifo)))
    \/ BsCheck \/ BsSend
    \/ EdRecv \/ EdEofLock \/ EdEofSend \/ EdIns
    \/ RlRecv \/ RlLock \/ RlDrain \/ RlDone
    \/ RcRecv \/ RcEmit \/ RrRecv \/ RrDrainOut \/ RrDrainCmd

SpecReset == InitReset /\ [][NextReset]_vars

\* C12 (as claimed): in the scenario start, 'garbage', reset, start,
\* 'hello', stop, once the pipeline has come to rest stdout holds at most
\* one record of the flush and then a record with output exactly 'hello',
\* whose id is one greater than that of the record before it.
C12_ResetMidStreamThenHello ==
    (shpc = "done" /\ AtRest) =>
        /\ Len(stdout) \in {1, 2}
        /\ stdout[Len(stdout)].output = Str_hello
        /\ Len(stdout) = 2 =>
              ParseUint(stdout[2].id) = ParseUint(stdout[1].id) + 1

(***************************************************************************)
(* More claims about the whole pipeline (Spec).                            *)
(***************************************************************************)
\* the steps of a reset: the SIGHUP handler, resetState of the editor and
\* the reset goroutine of recordCreator
ResetStep ==
    \/ ctrlpc' \in {"hup_editor", "hup_creator", "hup_send"}
    \/ ctrlpc \in {"hup_editor", "hup_creator", "hup_send"}
    \/ rlpc' # rlpc \/ rlpc = "drain"
    \/ rrpc' # rrpc \/ rrpc \in {"drain_out", "drain_cmd"}

\* C13: no step of a reset (handler, editor, assembler) changes recordID;
\* the only step that changes it is the one that builds and prints a record,
\* and it adds exactly one.
C13_CounterChangesOnlyByRecord ==
    [][/\ ((ResetStep /\ ~(rcpc = "emit" /\ rcpc' = "recv"))
             => recordID' = recordID)
       /\ (recordID' # recordID
             => /\ rcpc = "emit" /\ rcpc' = "recv"
                /\ recordID' = recordID + 1
                /\ Len(stdout') = Len(stdout) + 1)]_vars

\* a record was printed, then a reset ran to its end in the handler, the
\* editor and the assembler, and the counter still reads 1
C13_Witness ==
    /\ recordID = 1 /\ Len(stdout) = 1
    /\ lastHandled = "reset" /\ ctrlpc = "idle"
    /\ resetDone # "no" /\ rlpc = "idle"
    /\ rrpc = "exited"

\* C15: the SIGHUP handler, step by step and in this order: it reads the
\* flag as W and sets it to false; it offers a token to resetChan and then to
\* recordCreatorResetChan, each offer possible at once and leaving exactly
\* one token there; it sends one 0x04 on scriptFifoByteChan when W was true
\* and none when W was false; the flag is false all along and when the
\* handler returns.
C15_ResetHandlerOrder ==
    /\ [](ctrlpc = "hup_editor" => ENABLED CtrlResetEditor)
    /\ [](ctrlpc = "hup_creator" => ENABLED CtrlResetCreator)
    /\ [](ctrlpc \in {"hup_editor", "hup_creator", "hup_send"} => ~reading)
    /\ [][(ctrlpc = "idle" /\ ctrlpc' # "idle" /\ ctrlpc' # "usr2_send")
            => /\ ctrlpc' = "hup_editor"
               /\ wasReading' = reading /\ ~reading'
               /\ UNCHANGED <<resetChan, recordCreatorResetChan,
                              scriptFifoByteChan>>]_vars
    /\ [][(ctrlpc = "hup_editor" /\ ctrlpc' # ctrlpc)
            => /\ ctrlpc' = "hup_creator"
               /\ resetChan' = 1
               /\ UNCHANGED <<reading, wasReading, recordCreatorResetChan,
                              scriptFifoByteChan>>]_vars
    /\ [][(ctrlpc = "hup_creator" /\ ctrlpc' # ctrlpc)
            => /\ ctrlpc' = IF wasReading THEN "hup_send" ELSE "idle"
               /\ recordCreatorResetChan' = 1
               /\ UNCHANGED <<reading, wasReading, resetChan,
                              scriptFifoByteChan>>]_vars
    /\ [][(ctrlpc = "hup_send" /\ ctrlpc' # ctrlpc)
            => /\ ctrlpc' = "idle"
               /\ scriptFifoByteChan' = Append(scriptFifoByteChan, EOF)
               /\ ~reading'
               /\ UNCHANGED <<resetChan, recordCreatorResetChan>>]_vars

\* a SIGHUP taken after a SIGUSR1 has been handled to its end: both tokens
\* offered, the flag false, its 0x04 the only item of scriptFifoByteChan
C15_Witness ==
    /\ lastHandled = "reset" /\ ctrlpc = "idle"
    /\ nSignals = 2 /\ nBytes = 0
    /\ ~reading
    /\ scriptFifoByteChan = <<EOF>>

\* the step that handles a SIGUSR1
StartStep == ctrlpc = "idle" /\ ctrlpc' = "idle" /\ nSignals' # nSignals

\* C16: the flag is false at the start; whenever the handler is between two
\* signals the flag is true exactly when the signal it handled last was
\* SIGUSR1; a SIGUSR1 on a true flag changes nothing of the program; each
\* SIGUSR2 clears the flag and then sends one 0x04 on scriptFifoByteChan.
C16_FlagFollowsLastSignal ==
    /\ [](nSignals = 0 => ~reading)
    /\ [](ctrlpc = "idle" => (reading <=> lastHandled = "start"))
    /\ [](ctrlpc # "idle" => ~reading)
    /\ [][StartStep => reading']_vars
    /\ [][(StartStep /\ reading)
            => UNCHANGED <<sharedVars, ctrlpc, wasReading, bsVars, csVars,
                           edVars, mu, rlpc, rcVars>>]_vars
    /\ [][(ctrlpc = "idle" /\ ctrlpc' = "usr2_send")
            => (~reading' /\ scriptFifoByteChan' = scriptFifoByteChan)]_vars
    /\ [][(ctrlpc = "usr2_send" /\ ctrlpc' # ctrlpc)
            => /\ ctrlpc' = "idle"
               /\ scriptFifoByteChan' = Append(scriptFifoByteChan, EOF)
               /\ ~reading']_vars

\* two SIGUSR1 handled one after the other, the flag true
C16_Witness ==
    /\ nSignals = 2 /\ lastHandled = "start" /\ ctrlpc = "idle"
    /\ ~resetSeen /\ stopHadBytes = <<>>
    /\ reading

(***************************************************************************)
(* More claims about the pipeline with its shell (SpecProto).              *)
(***************************************************************************)
\* C14: recordCreator, holding an output, never waits for a command: its
\* next step is always possible, and that step prints a record whose command
\* is "" when commandChan is empty and is the head of commandChan, which it
\* removes, otherwise.
C14_CommandTakenWithoutWaiting ==
    /\ [](rcpc = "emit" => ENABLED RcEmit)
    /\ [][(rcpc = "emit" /\ rcpc' = "recv")
            => /\ Len(stdout') = Len(stdout) + 1
               /\ stdout'[Len(stdout')].output = rcOutput
               /\ IF commandChan = <<>>
                  THEN /\ stdout'[Len(stdout')].command = <<>>
                       /\ commandChan' = <<>>
                  ELSE /\ stdout'[Len(stdout')].command = Head(commandChan)
                       /\ commandChan' = Tail(commandChan)]_vars

\* one record printed while commandChan was empty, the next with the command
\* that arrived in between
C14_Witness ==
    /\ Len(stdout) = 2
    /\ stdout[1].command = <<>>
    /\ stdout[2].command = <<99>>

(***************************************************************************)
(* commandFifoReader alone: a writer has put a byte string on the command  *)
(* FIFO (script keeps it), the reader takes it byte by byte, and a         *)
(* consumer receives from commandChan as recordCreator does (outs keeps    *)
(* what it received).                                                      *)
(***************************************************************************)
MaxCmdLen == 6

CmdBytes == {LF, CR, 99, 100}

InitCmd ==
    /\ InitProgram
    /\ script \in UNION { [1..n -> CmdBytes] : n \in 0..MaxCmdLen }
    /\ fed = <<>> /\ outs = <<>>
    /\ shpc = "off" /\ cycle = 0 /\ synced = TRUE

\* the writer's write of the whole string, before the reader starts
CmdWrite ==
    /\ nCmdBytes = 0 /\ commandFifo = <<>> /\ fed = <<>> /\ script # <<>>
    /\ commandFifo' = script
    /\ fed' = script
    /\ UNCHANGED <<sharedVars, ctrlVars, bsVars, cspc, commandBuffer, edVars,
                   mu, rlpc, rcVars, script, outs, shellVars, histVars>>

\* `command = <-commandChan`, main.go:503
CmdRecv ==
    /\ commandChan # <<>>
    /\ outs' = Append(outs, Head(commandChan))
    /\ commandChan' = Tail(commandChan)
    /\ UNCHANGED <<reading, recordID, resetChan, recordCreatorResetChan,
                   scriptFifoByteChan, byteClosed, commandOutputChan,
                   outClosed, stdout, ctrlVars, bsVars, csVars, edVars, mu,
                   rlpc, rcVars, script, fed, shellVars, histVars>>

NextCmd ==
    \/ CmdWrite
    \/ (commandFifo # <<>> /\ CsRead(Head(commandFifo), Tail(commandFifo)))
    \/ CsSend
    \/ CmdRecv

SpecCmd == InitCmd /\ [][NextCmd]_vars

\* the runs of bytes of bs that end with LF and are not empty, without the
\* LF, in order; run is the run being read
RECURSIVE LinesOf(_, _)
LinesOf(bs, run) ==
    IF bs = <<>> THEN <<>>
    ELSE IF Head(bs) # 10 THEN LinesOf(Tail(bs), Append(run, Head(bs)))
    ELSE IF run = <<>> THEN LinesOf(Tail(bs), <<>>)
    ELSE <<run>> \o LinesOf(Tail(bs), <<>>)

\* C17: what the consumer has received, then what waits in commandChan, then
\* the command the reader is about to send, are exactly the non-empty runs
\* that end with LF among the bytes read so far, LF removed, each once and in
\* order; an empty run gives nothing and CR stays in the command.
C17_CommandsAreTheNonEmptyLines ==
    outs \o commandChan
         \o (IF cspc = "send" THEN <<commandBuffer>> ELSE <<>>)
      = LinesOf(SubSeq(fed, 1, nCmdBytes), <<>>)

\* "c\r\n\nd\n" read to its end: two commands, the first with its CR
C17_Witness ==
    /\ script = <<99, CR, LF, LF, 100, LF>>
    /\ outs = << <<99, CR>>, <<100>> >>

(***************************************************************************)
(* The JSON line of a record: json.Marshal at main.go:519 and the          *)
(* json.Unmarshal a reader of the line applies (main_test.go:335).         *)
(* Strings are sequences of bytes, as Go strings are.  script keeps the    *)
(* record built at main.go:511-516, fed the line printed, outs the record  *)
(* parsed from it.                                                         *)
(***************************************************************************)
MaxFieldLen == 2

RuneError == 65533

\* utf8.DecodeRune on a non-empty s: the rune at its head and its width;
\* a byte that starts no valid encoding gives (RuneError, 1)
DecodeRune(s) ==
    LET b0 == s[1]
        n == Len(s)
        Cont(i, lo, hi) == i <= n /\ s[i] >= lo /\ s[i] <= hi
    IN IF b0 < 128 THEN [r |-> b0, size |-> 1]
       ELSE IF b0 >= 194 /\ b0 <= 223 /\ Cont(2, 128, 191)
       THEN [r |-> (b0 % 32) * 64 + (s[2] % 64), size |-> 2]
       ELSE IF /\ b0 >= 224 /\ b0 <= 239
               /\ Cont(2, IF b0 = 224 THEN 160 ELSE 128,
                          IF b0 = 237 THEN 159 ELSE 191)
               /\ Cont(3, 128, 191)
       THEN [r |-> (b0 % 16) * 4096 + (s[2] % 64) * 64 + (s[3] % 64),
             size |-> 3]
       ELSE IF /\ b0 >= 240 /\ b0 <= 244
               /\ Cont(2, IF b0 = 240 THEN 144 ELSE 128,
                          IF b0 = 244 THEN 143 ELSE 191)
               /\ Cont(3, 128, 191)
               /\ Cont(4, 128, 191)
       THEN [r |-> (b0 % 8) * 262144 + (s[2] % 64) * 4096
                     + (s[3] % 64) * 64 + (s[4] % 64),
             size |-> 4]
       ELSE [r |-> RuneError, size |-> 1]

\* utf8.AppendRune: the encoding of a rune; a surrogate is written as
\* RuneError
EncodeRune(r) ==
    IF r < 128 THEN <<r>>
    ELSE IF r < 2048 THEN <<192 + (r \div 64), 128 + (r % 64)>>
    ELSE IF r >= 55296 /\ r <= 57343 THEN <<239, 191, 189>>
    ELSE IF r < 65536
    THEN <<224 + (r \div 4096), 128 + ((r \div 64) % 64), 128 + (r % 64)>>
    ELSE <<240 + (r \div 262144), 128 + ((r \div 4096) % 64),
           128 + ((r \div 64) % 64), 128 + (r % 64)>>

HexDigit(d) == IF d < 10 THEN 48 + d ELSE 87 + d

HexValue(c) ==
    IF c >= 48 /\ c <= 57 THEN c - 48
    ELSE IF c >= 97 /\ c <= 102 THEN c - 87
    ELSE c - 55

\* the escape \uXXXX of a rune below 65536
EscapeU(r) ==
    <<92, 117, HexDigit(r \div 4096), HexDigit((r \div 256) % 16),
      HexDigit((r \div 16) % 16), HexDigit(r % 16)>>

\* the body of the JSON string that json.Marshal writes for a Go string
\* (HTML escaping on): quote and backslash get a backslash, the usual control
\* characters their short escape, the other control characters and < > &
\* an escape \u00XX, a byte that is not valid UTF-8 the escape of RuneError,
\* U+2028 and U+2029 their escape, and everything else is copied
RECURSIVE QuoteBody(_)
QuoteBody(s) ==
    IF s = <<>> THEN <<>>
    ELSE LET b == s[1]
         IN IF b < 128
            THEN (IF b = 92 \/ b = 34 THEN <<92, b>>
                  ELSE IF b = 8 THEN <<92, 98>>
                  ELSE IF b = 12 THEN <<92, 102>>
                  ELSE IF b = 10 THEN <<92, 110>>
                  ELSE IF b = 13 THEN <<92, 114>>
                  ELSE IF b = 9 THEN <<92, 116>>
                  ELSE IF b < 32 \/ b = 60 \/ b = 62 \/ b = 38
                  THEN EscapeU(b)
                  ELSE <<b>>) \o QuoteBody(Tail(s))
            ELSE LET d == DecodeRune(s)
                     rest == SubSeq(s, d.size + 1, Len(s))
                 IN IF d.r = RuneError /\ d.size = 1
                    THEN EscapeU(RuneError) \o QuoteBody(rest)
                    ELSE IF d.r = 8232 \/ d.r = 8233
                    THEN EscapeU(d.r) \o QuoteBody(rest)
                    ELSE SubSeq(s, 1, d.size) \o QuoteBody(rest)

\* the rune of the four hex digits at s[i..i+3]
Hex4(s, i) ==
    HexValue(s[i]) * 4096 + HexValue(s[i + 1]) * 256
        + HexValue(s[i + 2]) * 16 + HexValue(s[i + 3])

\* the Go string that json.Unmarshal reads from the body of a JSON string:
\* escapes are resolved, a \u escape becomes the UTF-8 encoding of its rune
\* (a surrogate pair one rune, a lone surrogate RuneError), and bytes that
\* are not valid UTF-8 become the encoding of RuneError
RECURSIVE UnquoteBody(_)
UnquoteBody(s) ==
    IF s = <<>> THEN <<>>
    ELSE LET b == s[1]
             n == Len(s)
         IN IF b = 92 /\ n >= 2
            THEN LET c == s[2]
                 IN IF c = 117 /\ n >= 6
                    THEN LET r1 == Hex4(s, 3)
                             paired ==
                                 /\ r1 >= 55296 /\ r1 <= 56319
                                 /\ n >= 12 /\ s[7] = 92 /\ s[8] = 117
                                 /\ Hex4(s, 9) >= 56320 /\ Hex4(s, 9) <= 57343
                         IN IF paired
                            THEN EncodeRune((r1 - 55296) * 1024
                                            + (Hex4(s, 9) - 56320) + 65536)
                                     \o UnquoteBody(SubSeq(s, 13, n))
                            ELSE EncodeRune(r1) \o UnquoteBody(SubSeq(s, 7, n))
                    ELSE (IF c = 98 THEN <<8>>
                          ELSE IF c = 102 THEN <<12>>
                          ELSE IF c = 110 THEN <<10>>
                          ELSE IF c = 114 THEN <<13>>
                          ELSE IF c = 116 THEN <<9>>
                          ELSE <<c>>) \o UnquoteBody(SubSeq(s, 3, n))
            ELSE IF b < 128 THEN <<b>> \o UnquoteBody(Tail(s))
            ELSE LET d == DecodeRune(s)
                 IN EncodeRune(d.r) \o UnquoteBody(SubSeq(s, d.size + 1, n))

\* the two decimal digits of n < 100
Digits2(n) == <<48 + (n \div 10), 48 + (n % 10)>>

RECURSIVE TrimZeros(_)
TrimZeros(ds) ==
    IF ds # <<>> /\ ds[Len(ds)] = 48 THEN TrimZeros(SubSeq(ds, 1, Len(ds) - 1))
    ELSE ds

\* the fraction of a second in the layout RFC3339Nano: nothing when it is
\* zero, else a dot and the nine digits without their trailing zeros
Fraction(nsec) ==
    IF nsec = 0 THEN <<>>
    ELSE <<46>> \o TrimZeros([i \in 1..9 |->
                                 48 + ((nsec \div (10 ^ (9 - i))) % 10)])

\* "2026-11-01T": the instants modelled lie in one day of UTC
DatePart == <<50, 48, 50, 54, 45, 49, 49, 45, 48, 49, 84>>

\* Time.MarshalJSON: the wall clock in RFC3339Nano; the monotonic reading
\* that time.Now() (main.go:515) attaches is not written
FormatTime(t) ==
    DatePart \o Digits2(t.sec \div 3600) \o <<58>>
             \o Digits2((t.sec \div 60) % 60) \o <<58>>
             \o Digits2(t.sec % 60) \o Fraction(t.nsec) \o <<90>>

\* Time.UnmarshalJSON on such a text
ParseTime(bs) ==
    LET frac == SubSeq(bs, 21, Len(bs) - 1)
    IN [sec |-> ParseUint(SubSeq(bs, 12, 13)) * 3600
                  + ParseUint(SubSeq(bs, 15, 16)) * 60
                  + ParseUint(SubSeq(bs, 18, 19)),
        nsec |-> IF frac = <<>> THEN 0
                 ELSE ParseUint(frac) * (10 ^ (9 - Len(frac))),
        mono |-> 0]

\* the text before each value of the line and the text that ends it
KeyId == <<123, 34, 105, 100, 34, 58, 34>>
KeyCommand == <<34, 44, 34, 99, 111, 109, 109, 97, 110, 100, 34, 58, 34>>
KeyOutput == <<34, 44, 34, 111, 117, 116, 112, 117, 116, 34, 58, 34>>
KeyTime ==
    <<34, 44, 34, 114, 101, 116, 117, 114, 110, 95, 116, 105, 109, 101, 115,
      116, 97, 109, 112, 34, 58, 34>>
LineEnd == <<34, 125>>

\* json.Marshal(record), main.go:519, for the struct of main.go:23-28
Marshal(rec) ==
    KeyId \o QuoteBody(rec.id)
          \o KeyCommand \o QuoteBody(rec.command)
          \o KeyOutput \o QuoteBody(rec.output)
          \o KeyTime \o FormatTime(rec.return_timestamp)
          \o LineEnd

\* the length of the body of the JSON string that starts s: up to the first
\* quote that no backslash escapes
RECURSIVE BodyLen(_)
BodyLen(s) ==
    IF s = <<>> \/ s[1] = 34 THEN 0
    ELSE IF s[1] = 92 THEN 2 + BodyLen(SubSeq(s, 3, Len(s)))
    ELSE 1 + BodyLen(Tail(s))

\* json.Unmarshal of a line into a CommandRecord, main_test.go:335
Unmarshal(line) ==
    LET a == SubSeq(line, Len(KeyId) + 1, Len(line))
        na == BodyLen(a)
        b == SubSeq(a, na + Len(KeyCommand) + 1, Len(a))
        nb == BodyLen(b)
        c == SubSeq(b, nb + Len(KeyOutput) + 1, Len(b))
        nc == BodyLen(c)
        d == SubSeq(c, nc + Len(KeyTime) + 1, Len(c))
        nd == BodyLen(d)
    IN [id |-> UnquoteBody(SubSeq(a, 1, na)),
        command |-> UnquoteBody(SubSeq(b, 1, nb)),
        output |-> UnquoteBody(SubSeq(c, 1, nc)),
        return_timestamp |-> ParseTime(SubSeq(d, 1, nd))]

\* bytes a command can hold, main.go:288-299: every byte but LF; here a
\* letter, the quote, the backslash, <, TAB, the two bytes of U+00E9 and
\* a byte that no UTF-8 text holds
JsonCommandBytes == {97, 34, 92, 60, 9, 195, 169, 255}

\* outputs the editor can send: printable bytes, CR and LF, main.go:423-432
JsonOutputs ==
    { <<>>, <<104, 101, 108, 108, 111, CR, LF>>, <<34, 92>>, <<60, 97, 62>> }

\* instants time.Now() can return
JsonTimes ==
    { [sec |-> s, nsec |-> n, mono |-> 7] :
        s \in {0, 3661, 86399}, n \in {0, 1, 120000000, 999999999} }

JsonRecords ==
    { [id |-> FormatUint(i), command |-> c, output |-> o,
       return_timestamp |-> t] :
        i \in {1, 42},
        c \in UNION { [1..n -> JsonCommandBytes] : n \in 0..MaxFieldLen },
        o \in JsonOutputs,
        t \in JsonTimes }

InitJson ==
    /\ InitProgram
    /\ script \in JsonRecords
    /\ fed = <<>> /\ outs = <<>>
    /\ shpc = "off" /\ cycle = 0 /\ synced = TRUE

\* main.go:519-525: the record is marshalled and the line printed
JsonPrint ==
    /\ fed = <<>>
    /\ fed' = Marshal(script)
    /\ UNCHANGED <<sharedVars, ctrlVars, bsVars, csVars, edVars, mu, rlpc,
                   rcVars, script, outs, shellVars, histVars>>

\* a reader of the line parses it
JsonParse ==
    /\ fed # <<>> /\ outs = <<>>
    /\ outs' = <<Unmarshal(fed)>>
    /\ UNCHANGED <<sharedVars, ctrlVars, bsVars, csVars, edVars, mu, rlpc,
                   rcVars, script, fed, shellVars, histVars>>

NextJson == JsonPrint \/ JsonParse

SpecJson == InitJson /\ [][NextJson]_vars

\* two instants at most one nanosecond apart
WithinOneNs(a, b) ==
    \/ a.sec = b.sec /\ a.nsec - b.nsec \in {-1, 0, 1}
    \/ a.sec = b.sec + 1 /\ a.nsec = 0 /\ b.nsec = 999999999
    \/ b.sec = a.sec + 1 /\ b.nsec = 0 /\ a.nsec = 999999999

\* C18: the record parsed from the line of a record has the id, the command
\* and the output of that record, byte for byte, and a return_timestamp at
\* most one nanosecond from its own.
C18_RoundTrip ==
    outs # <<>> =>
        /\ outs[1].id = script.id
        /\ outs[1].command = script.command
        /\ outs[1].output = script.output
        /\ WithinOneNs(outs[1].return_timestamp, script.return_timestamp)

(***************************************************************************)
(* The editor with its reset listener, driven as TestLineEditorReset       *)
(* drives it (main_test.go:264-315): a goroutine sends the bytes of a      *)
(* script, receives the outputs, and offers a token on resetChan whenever  *)
(* the channel has room, at any moment of the run.                         *)
(***************************************************************************)
MaxCurTokens == 3

CurTokens == { <<97>>, <<BACKSPACE>>, SeqLeft, SeqRight, <<EOF>> }

CurScripts ==
    { Flatten(ts) : ts \in UNION { [1..n -> CurTokens] : n \in 0..MaxCurTokens } }

InitCur ==
    /\ InitProgram
    /\ script \in CurScripts
    /\ fed = <<>>
    /\ outs = <<>>
    /\ shpc = "off" /\ cycle = 0 /\ synced = TRUE

\* the non-blocking `resetChan <- struct{}{}` of main_test.go:291-295
DrvReset ==
    /\ resetChan = 0
    /\ resetChan' = 1
    /\ UNCHANGED <<reading, recordID, recordCreatorResetChan,
                   scriptFifoByteChan, byteClosed, commandOutputChan,
                   outClosed, commandChan, stdout, ctrlVars, bsVars, csVars,
                   edVars, mu, rlpc, rcVars, driverVars, shellVars, histVars>>

NextCur ==
    \/ DrvFeed \/ DrvRecv \/ DrvReset
    \/ EdRecv \/ EdCSI \/ EdEofLock \/ EdEofSend \/ EdEsc \/ EdDel \/ EdIns
    \/ RlRecv \/ RlLock \/ RlDrain \/ RlDone

SpecCur == InitCur /\ [][NextCur]_vars

\* C19: in every state of the editor, while a reset runs or waits for the
\* mutex as much as between resets, the cursor is a position of the buffer:
\* 0 <= cursor <= |buffer|.
C19_CursorWithinBuffer == cursor >= 0 /\ cursor <= Len(buffer)

\* the reset holds the mutex, has cleared the state and drains the channel,
\* while the loop has received a right arrow after a letter and waits for the
\* mutex to move the cursor
C19_Witness ==
    /\ rlpc = "drain" /\ mu = "reset"
    /\ edpc = "csi" /\ csiBuffer = <<ARROW_RIGHT>>
    /\ fed = <<97>> \o SeqRight
    /\ buffer = <<>> /\ cursor = 0

(***************************************************************************)
(* More claims about the editor alone (SpecEd).                            *)
(***************************************************************************)
\* the loop receives the end-of-command byte outside a CSI sequence
MarkerStep == EdRecvStep /\ ~inCSI /\ Head(scriptFifoByteChan) = 4

\* the end-of-command case sends and clears, main.go:403-406
FlushStep == edpc = "eof_send" /\ edpc' = "recv"

\* what the claim asks of the flush: the buffer as it was when the byte was
\* received is enqueued, then buffer, cursor and alternate screen are cleared
FlushClears ==
    /\ [][(edpc \in {"eof", "eof_send"} /\ ~FlushStep)
            => (buffer' = buffer
                /\ Len(commandOutputChan') <= Len(commandOutputChan))]_vars
    /\ [][FlushStep
            => /\ commandOutputChan' = Append(commandOutputChan, buffer)
               /\ buffer' = <<>> /\ cursor' = 0
               /\ ~inAlternateScreen']_vars

\* C20 (as claimed): the end-of-command byte received outside a CSI sequence,
\* in the alternate screen as much as outside it, is taken to the
\* end-of-command case, which enqueues the buffer as it was and leaves the
\* buffer empty, the cursor at 0 and the alternate screen off.
C20_MarkerFlushesAlsoInAltScreen ==
    /\ [][MarkerStep => edpc' = "eof"]_vars
    /\ FlushClears

\* C20 (amended): that holds for the byte received while the alternate screen
\* is off; received while it is on, the byte is dropped like every byte but
\* ESC: nothing is enqueued, buffer and cursor stay, the alternate screen
\* stays on.
C20_MarkerFlushesOutsideAltScreen ==
    /\ [][(MarkerStep /\ ~inAlternateScreen) => edpc' = "eof"]_vars
    /\ [][(MarkerStep /\ inAlternateScreen)
            => /\ edpc' = "recv"
               /\ inAlternateScreen'
               /\ buffer' = buffer /\ cursor' = cursor
               /\ commandOutputChan' = commandOutputChan]_vars
    /\ FlushClears
    /\ []((Whole = <<97, 4>> \o SeqEnterAlt \o <<4>> /\ Consumed)
            => (outs = << <<97>> >> /\ inAlternateScreen))

\* 'a' and the byte gave the output "a"; the alternate screen was entered and
\* the byte came again: nothing more was sent
C20_Witness ==
    /\ Whole = <<97, 4>> \o SeqEnterAlt \o <<4>>
    /\ Consumed
    /\ edpc = "recv"
    /\ outs = << <<97>> >>
    /\ buffer = <<>> /\ cursor = 0 /\ inAlternateScreen

(***************************************************************************)
(* More claims about the editor with its reset listener (SpecCur).         *)
(***************************************************************************)
\* C21 (as claimed): the loop changes buffer, cursor, inCSI, csiBuffer and
\* inAlternateScreen only while it holds the mutex; so while resetState holds
\* the mutex, from its clearing to the end of its drain, none of them changes.
C21_NoEditorStateChangesDuringReset ==
    [][(mu = "reset" /\ mu' = "reset")
         => UNCHANGED <<buffer, cursor, inCSI, csiBuffer,
                        inAlternateScreen>>]_vars

(***************************************************************************)
(* Claims about resets in the whole pipeline (Spec).                       *)
(***************************************************************************)
\* a token waits on resetChan, or the reset listener is handling one
EditorResetPending == resetChan > 0 \/ rlpc # "idle"

\* C22 (as claimed): from the delivery of the reset token until the editor
\* has finished its drain, reading.Load() of scriptFifoReader never lets a
\* session byte through, so no byte of a later cycle can be drained.
C22_NoByteAdmittedWhileResetPending ==
    [][(EditorResetPending /\ bspc = "check") => bspc' # "send"]_vars

(***************************************************************************)
(* The pipeline whose session stream ends: the writer of the script FIFO   *)
(* closes it, f.Read returns io.EOF, scriptFifoReader leaves its loop and  *)
(* the deferred close(scriptFifoByteChan) runs (main.go:230, 243-248).     *)
(* The process lives on (`select {}`, main.go:116) and signals keep        *)
(* arriving.  A receive from the closed, empty channel returns at once     *)
(* with the zero value and never takes the default case of a select: a     *)
(* drain loop that has reached that state (RlDrain/RlDone, RrDrainOut)     *)
(* repeats the receive for ever, which changes no variable.                *)
(***************************************************************************)
MaxCloseSignals == 2
MaxCloseBytes == 2

\* lines 243-248 and the deferred close of line 230
BsEof ==
    /\ bspc = "read"
    /\ scriptFifo = <<>>
    /\ ~byteClosed
    /\ byteClosed' = TRUE
    /\ bspc' = "done"
    /\ UNCHANGED <<reading, recordID, resetChan, recordCreatorResetChan,
                   scriptFifoByteChan, commandOutputChan, outClosed,
                   commandChan, stdout, ctrlVars, scriptFifo, bsbuf, csVars,
                   edVars, mu, rlpc, rcVars, driverVars, shellVars, histVars>>

\* lines 189 and 212 when the channel is closed: the send panics and the
\* process ends
CtrlSendPanic ==
    /\ ctrlpc \in {"usr2_send", "hup_send"}
    /\ byteClosed
    /\ ctrlpc' = "panic"
    /\ UNCHANGED <<sharedVars, sigs, wasReading, bsVars, csVars, edVars, mu,
                   rlpc, rcVars, driverVars, shellVars, histVars>>

\* line 499: the range loop of recordCreator ends on the closed, empty channel
RcClose ==
    /\ rcpc = "recv"
    /\ commandOutputChan = <<>>
    /\ outClosed
    /\ rcpc' = "done"
    /\ UNCHANGED <<sharedVars, ctrlVars, bsVars, csVars, edVars, mu, rlpc,
                   rcOutput, rrpc, driverVars, shellVars, histVars>>

InitClose ==
    /\ InitProgram
    /\ script = <<>> /\ fed = <<>> /\ outs = <<>>
    /\ shpc = "off" /\ cycle = 0 /\ synced = TRUE

\* no goroutine takes a step once the process has panicked
Alive == ctrlpc # "panic"

NextClose ==
    \/ (Alive /\ nSignals < MaxCloseSignals /\ CtrlStart(sigs))
    \/ (Alive /\ nSignals < MaxCloseSignals /\ CtrlStop(sigs))
    \/ (Alive /\ nSignals < MaxCloseSignals /\ CtrlReset(sigs))
    \/ CtrlStopSend \/ CtrlResetEditor \/ CtrlResetCreator \/ CtrlResetSend
    \/ CtrlSendPanic
    \/ (Alive /\ nBytes < MaxCloseBytes
              /\ \E b \in StreamBytes : BsRead(b, scriptFifo))
    \/ (Alive /\ BsCheck) \/ (Alive /\ BsSend) \/ (Alive /\ BsEof)
    \/ (Alive /\ EdRecv) \/ (Alive /\ EdClose) \/ (Alive /\ EdEofLock)
    \/ (Alive /\ EdEofSend) \/ (Alive /\ EdEsc) \/ (Alive /\ EdEscClosed)
    \/ (Alive /\ EdIns)
    \/ (Alive /\ RlRecv) \/ (Alive /\ RlLock) \/ (Alive /\ RlDrain)
    \/ (Alive /\ RlDone)
    \/ (Alive /\ RcRecv) \/ (Alive /\ RcEmit) \/ (Alive /\ RcClose)
    \/ (Alive /\ RrRecv) \/ (Alive /\ RrDrainOut) \/ (Alive /\ RrDrainCmd)

SpecClose == InitClose /\ [][NextClose]_vars

\* C23 (as claimed): the handling of a reset token by the editor always comes
\* to its end: a drain that holds the mutex has an item to discard or can
\* take the default case and return, also after the byte queue was closed.
C23_DrainCanReturn ==
    (rlpc = "drain" /\ scriptFifoByteChan = <<>>) => ENABLED RlDone

(***************************************************************************)
(* More claims about resets in the whole pipeline (Spec).                  *)
(***************************************************************************)
\* C24: each reset queue holds no token or one; the handler's offer to a
\* queue that holds a token leaves the queue as it is, and each of the two
\* offers can always be made at once, whatever the queues hold.
C24_ResetQueuesHoldAtMostOneToken ==
    /\ [](resetChan \in {0, 1} /\ recordCreatorResetChan \in {0, 1})
    /\ [][(ctrlpc = "hup_editor" /\ ctrlpc' = "hup_creator" /\ resetChan = 1)
            => resetChan' = 1]_vars
    /\ [][(ctrlpc = "hup_creator" /\ ctrlpc' # "hup_creator"
             /\ recordCreatorResetChan = 1)
            => recordCreatorResetChan' = 1]_vars
    /\ [](ctrlpc = "hup_editor" => ENABLED CtrlResetEditor)
    /\ [](ctrlpc = "hup_creator" => ENABLED CtrlResetCreator)

\* two SIGHUPs and nothing else: the second has made its offer to the editor
\* while the token of the first was still on resetChan
C24_Witness ==
    /\ nSignals = 2 /\ lastHandled = "reset"
    /\ ctrlpc = "hup_creator"
    /\ resetChan = 1 /\ rlpc = "idle" /\ resetDone = "no"

(***************************************************************************)
(* Claims about completed CSI sequences in the editor alone (SpecEd).      *)
(***************************************************************************)
\* the step of the loop that hands the completed sequence to handleCSI
CsiStep == edpc = "csi" /\ edpc' = "recv"

\* the completed sequence ends with byte c
CsiEndsWith(c) == csiBuffer # <<>> /\ csiBuffer[Len(csiBuffer)] = c

\* the completed sequence holds the text ?1049
CsiHasAltParam ==
    \E i \in 1..(Len(csiBuffer) - 4) :
        SubSeq(csiBuffer, i, i + 4) = <<63, 49, 48, 52, 57>>

\* C25: a completed sequence that ends with 'D' takes the cursor one to the
\* left unless it is at 0, one that ends with 'C' one to the right unless it
\* is at the end of the buffer; one that ends with 'h' (with 'l') and holds
\* ?1049 sets inAlternateScreen to true (to false) and leaves the cursor.
C25_CsiMovesCursorOrSwitchesScreen ==
    /\ [][(CsiStep /\ CsiEndsWith(68))
            => cursor' = IF cursor > 0 THEN cursor - 1 ELSE cursor]_vars
    /\ [][(CsiStep /\ CsiEndsWith(67))
            => cursor' = IF cursor < Len(buffer) THEN cursor + 1
                         ELSE cursor]_vars
    /\ [][(CsiStep /\ CsiEndsWith(104) /\ CsiHasAltParam)
            => (inAlternateScreen' /\ cursor' = cursor)]_vars
    /\ [][(CsiStep /\ CsiEndsWith(108) /\ CsiHasAltParam)
            => (~inAlternateScreen' /\ cursor' = cursor)]_vars

\* 'a', then the left arrow twice: the cursor went from 1 to 0 and stayed
C25_Witness ==
    /\ fed = <<97>> \o SeqLeft \o SeqLeft
    /\ edpc = "recv" /\ scriptFifoByteChan = <<>> /\ ~inCSI
    /\ buffer = <<97>> /\ cursor = 0

\* C26: no completed sequence changes the buffer; one that is not an
\* alternate-screen enter or exit and does not end with 'D' or 'C' changes
\* neither the cursor nor inAlternateScreen.
C26_OtherCsiChangesNothing ==
    /\ [][CsiStep => buffer' = buffer]_vars
    /\ [][(/\ CsiStep
           /\ ~CsiEndsWith(68) /\ ~CsiEndsWith(67)
           /\ ~(CsiHasAltParam /\ (CsiEndsWith(104) \/ CsiEndsWith(108))))
            => /\ cursor' = cursor
               /\ inAlternateScreen' = inAlternateScreen]_vars

\* 'a', then ESC[32m: the sequence was handled and nothing moved
C26_Witness ==
    /\ fed = <<97>> \o SeqGreen
    /\ edpc = "recv" /\ scriptFifoByteChan = <<>> /\ ~inCSI
    /\ csiBuffer = <<>>
    /\ buffer = <<97>> /\ cursor = 1 /\ ~inAlternateScreen

\* C27: ESC received outside a CSI sequence takes the loop to the receive of
\* the next byte and changes nothing; when that byte is not '[' it is taken
\* from the queue and buffer, cursor, inCSI and inAlternateScreen stay as
\* they were, so the editor is in the mode it was in before the ESC.
C27_EscThenOtherByteChangesNothing ==
    /\ [][(EdRecvStep /\ ~inCSI /\ Head(scriptFifoByteChan) = 27)
            => /\ edpc' = "esc"
               /\ UNCHANGED <<buffer, cursor, inCSI, csiBuffer,
                              inAlternateScreen, commandOutputChan>>]_vars
    /\ [][(/\ edpc = "esc" /\ edpc' = "recv"
           /\ scriptFifoByteChan # <<>> /\ Head(scriptFifoByteChan) # 91)
            => /\ scriptFifoByteChan' = Tail(scriptFifoByteChan)
               /\ UNCHANGED <<buffer, cursor, inCSI, inAlternateScreen,
                              commandOutputChan>>]_vars
    /\ []((Whole = <<27, 98, 97, 4>> /\ Consumed)
            => outs = << <<97>> >>)

\* ESC, 'b', 'a', 0x04: ESC and 'b' are gone, the output is "a"
C27_Witness ==
    /\ Whole = <<27, 98, 97, 4>>
    /\ Consumed
    /\ edpc = "recv"
    /\ outs = << <<97>> >>

(***************************************************************************)
(* The editor and recordCreator, driven as the unit tests drive them: a    *)
(* goroutine sends the bytes of a script on scriptFifoByteChan (letters    *)
(* and the end-of-command byte) and may offer a token on                   *)
(* recordCreatorResetChan at any moment, as TestRecordCreatorReset does    *)
(* (main_test.go:430-434).  fed keeps the bytes sent.                      *)
(***************************************************************************)
MaxAsmLen == 4

AsmBytes == {97, 98, EOF}

InitAsm ==
    /\ InitProgram
    /\ script \in UNION { [1..n -> AsmBytes] : n \in 0..MaxAsmLen }
    /\ fed = <<>>
    /\ outs = <<>>
    /\ shpc = "off" /\ cycle = 0 /\ synced = TRUE

\* the non-blocking `recordCreatorResetChan <- struct{}{}` of the test
DrvCreatorReset ==
    /\ recordCreatorResetChan = 0
    /\ recordCreatorResetChan' = 1
    /\ UNCHANGED <<reading, recordID, resetChan, scriptFifoByteChan,
                   byteClosed, commandOutputChan, outClosed, commandChan,
                   stdout, ctrlVars, bsVars, csVars, edVars, mu, rlpc, rcVars,
                   driverVars, shellVars, histVars>>

NextAsm ==
    \/ DrvFeed \/ DrvCreatorReset
    \/ EdRecv \/ EdEofLock \/ EdEofSend \/ EdIns
    \/ RcRecv \/ RcEmit \/ RrRecv \/ RrDrainOut \/ RrDrainCmd

SpecAsm == InitAsm /\ [][NextAsm]_vars

\* the runs of bs that a 0x04 ends, without it, the empty ones included
RECURSIVE RunsOf(_, _)
RunsOf(bs, run) ==
    IF bs = <<>> THEN <<>>
    ELSE IF Head(bs) # 4 THEN RunsOf(Tail(bs), Append(run, Head(bs)))
    ELSE <<run>> \o RunsOf(Tail(bs), <<>>)

\* the outputs the editor has enqueued so far: one per 0x04 it has handled
\* (a 0x04 it holds, at main.go:401-403, is not handled yet)
Enqueued ==
    LET held == IF edpc \in {"eof", "eof_send"} THEN 1 ELSE 0
        n == Len(fed) - Len(scriptFifoByteChan) - held
    IN RunsOf(SubSeq(fed, 1, n), <<>>)

\* the outputs of the records written, then the output recordCreator holds,
\* then the one that waits in commandOutputChan
Written ==
    [i \in 1..Len(stdout) |-> stdout[i].output]
        \o (IF rcpc = "emit" THEN <<rcOutput>> ELSE <<>>)
        \o commandOutputChan

\* xs can be got from ys by leaving elements out
RECURSIVE IsSubseq(_, _)
IsSubseq(xs, ys) ==
    IF xs = <<>> THEN TRUE
    ELSE IF ys = <<>> THEN FALSE
    ELSE IF Head(xs) = Head(ys) THEN IsSubseq(Tail(xs), Tail(ys))
    ELSE IsSubseq(xs, Tail(ys))

\* C28: the outputs written, held and waiting are, in order and each at most
\* once, outputs the editor enqueued; while no reset token was ever offered to
\* recordCreator they are all of them.
C28_OutputsWrittenInOrderOnce ==
    /\ Len(Written) <= Len(Enqueued)
    /\ IsSubseq(Written, Enqueued)
    /\ (rrpc = "idle" /\ recordCreatorResetChan = 0) => Written = Enqueued

\* "a" then "b" enqueued, no reset: two records, in that order
C28_Witness ==
    /\ fed = <<97, 4, 98, 4>>
    /\ rrpc = "idle" /\ recordCreatorResetChan = 0
    /\ Len(stdout) = 2
    /\ stdout[1].output = <<97>> /\ stdout[2].output = <<98>>

(***************************************************************************)
(* The editor and recordCreator when json.Marshal can fail.  For a         *)
(* CommandRecord it fails when Time.MarshalJSON does, that is when the     *)
(* clock read at main.go:515 lies outside the years 0 to 9999; the clock   *)
(* is not modelled, so each record may fail or not.                        *)
(***************************************************************************)
\* a variant that gives the id back when json.Marshal fails
CounterAtFailure_Mut(n) == n

\* the counter once json.Marshal has failed: recordID.Add(1) of line 512 has
\* run and lines 520-523 do not touch it
CounterAtFailure(n) == NextRecordID(n)

\* lines 501-523 when json.Marshal fails: the command is taken, the id is
\* used up, the error is logged and the loop continues with the next output
RcEmitFail ==
    /\ rcpc = "emit"
    /\ commandChan' = IF commandChan # <<>> THEN Tail(commandChan)
                      ELSE commandChan
    /\ recordID' = CounterAtFailure(recordID)
    /\ rcOutput' = <<>>
    /\ rcpc' = "recv"
    /\ UNCHANGED <<recordCreatorResetChan, commandOutputChan, stdout, rrpc>>
    /\ RcFrame

NextErr ==
    \/ DrvFeed
    \/ EdRecv \/ EdEofLock \/ EdEofSend \/ EdIns
    \/ RcRecv \/ RcEmit \/ RcEmitFail

SpecErr == InitAsm /\ [][NextErr]_vars

\* recordCreator leaves line 519 with an error
FailStep == rcpc = "emit" /\ rcpc' = "recv" /\ stdout' = stdout

\* C29: when json.Marshal fails nothing is written, the output is not put
\* back on commandOutputChan, recordCreator is at the head of its loop again,
\* and the counter has moved past the id of the failed record; every record
\* written carries the counter as it is after its own step, and the counter
\* never goes back: so no later record carries the id of a failed one.
C29_FailedRecordIsDroppedAndItsIdSpent ==
    /\ [][FailStep
            => /\ stdout' = stdout
               /\ commandOutputChan' = commandOutputChan
               /\ rcpc' = "recv" /\ rcOutput' = <<>>
               /\ recordID' > recordID]_vars
    /\ [][stdout' # stdout
            => /\ Len(stdout') = Len(stdout) + 1
               /\ recordID' > recordID
               /\ ParseUint(stdout'[Len(stdout')].id) = recordID']_vars
    /\ [][recordID' >= recordID]_vars
    /\ [](\A i \in 1..Len(stdout) : ParseUint(stdout[i].id) <= recordID)

\* "a" failed and had id 1; "b" was written next, with id 2
C29_Witness ==
    /\ fed = <<97, 4, 98, 4>>
    /\ Len(stdout) = 1
    /\ stdout[1].output = <<98>>
    /\ stdout[1].id = <<50>>
    /\ recordID = 2

(***************************************************************************)
(* Claims about the end of the session stream (SpecClose).                 *)
(***************************************************************************)
\* a step of the editor, of its reset listener, of recordCreator or of its
\* reset goroutine, or the rest of a signal handler under way
PipelineStep ==
    \/ EdRecv \/ EdClose \/ EdEofLock \/ EdEofSend \/ EdEsc \/ EdEscClosed
    \/ EdIns
    \/ RlRecv \/ RlLock \/ RlDrain \/ RlDone
    \/ RcRecv \/ RcEmit \/ RcClose \/ RrRecv \/ RrDrainOut \/ RrDrainCmd
    \/ CtrlResetEditor \/ CtrlResetCreator \/ CtrlSendPanic

\* C30 (as claimed): once the byte queue is closed the pipeline drains: the
\* editor handles what is queued and closes the output queue, recordCreator
\* writes what is queued and leaves its loop.  On finite runs: as long as
\* recordCreator has not left its loop, some goroutine of the pipeline has a
\* step to take.
C30_PipelineDrainsAfterClose ==
    (byteClosed /\ Alive /\ rcpc # "done") => ENABLED PipelineStep

(***************************************************************************)
(* The handler's send of the marker and the close of the byte queue        *)
(* (SpecClose).                                                            *)
(***************************************************************************)
\* C31 (as claimed): the signal handler never sends the marker 0x04 on the
\* byte queue after scriptFifoReader has closed it: it is never at the send
\* of line 189 or 212 with the queue closed, and the send never panics.
C31_NoMarkerSentOnClosedByteQueue ==
    ~(byteClosed /\ ctrlpc \in {"usr2_send", "hup_send", "panic"})

(***************************************************************************)
(* The mutex of lineEditor and the queues (Spec).                          *)
(***************************************************************************)
\* the loop of lineEditor stands at its send of line 403 and the output
\* queue is full
EdBlockedOnOutput ==
    edpc = "eof_send" /\ Len(commandOutputChan) >= OutputChanCap

\* C32 (as claimed): the loop of lineEditor does not hold its mutex while it
\* waits to send on the full output queue, so that a reset listener that has
\* taken a token can lock the mutex during the wait.
C32_MutexFreeWhileBlockedOnOutput ==
    EdBlockedOnOutput => (mu # "loop" /\ (rlpc = "lock" => ENABLED RlLock))

(***************************************************************************)
(* Progress of the pipeline while the session stream stays open and        *)
(* stdout accepts every line.  The Go scheduler runs every goroutine that  *)
(* stays runnable: each goroutine is weakly fair.  Signals and session     *)
(* bytes arrive as the environment decides, with no fairness.              *)
(***************************************************************************)
CtrlRest == CtrlStopSend \/ CtrlResetEditor \/ CtrlResetCreator \/ CtrlResetSend
BsLoop == BsCheck \/ BsSend
EdLoop == EdRecv \/ EdEofLock \/ EdEofSend \/ EdEsc \/ EdIns
RlLoop == RlRecv \/ RlLock \/ RlDrain \/ RlDone
RcLoop == RcRecv \/ RcEmit
RrLoop == RrRecv \/ RrDrainOut \/ RrDrainCmd

Fairness ==
    /\ WF_vars(CtrlRest) /\ WF_vars(BsLoop) /\ WF_vars(EdLoop)
    /\ WF_vars(RlLoop) /\ WF_vars(RcLoop) /\ WF_vars(RrLoop)

SpecLive == Spec /\ Fairness

\* the handler stands at its send of the marker and the byte queue is full
CtrlBlocked ==
    ctrlpc \in {"usr2_send", "hup_send"}
        /\ Len(scriptFifoByteChan) >= ByteChanCap

\* scriptFifoReader stands at its send and the byte queue is full
BsBlocked == bspc = "send" /\ Len(scriptFifoByteChan) >= ByteChanCap

\* the loop of lineEditor waits for the mutex or for room in the output queue
EdBlocked ==
    (edpc \in {"eof", "csi", "del", "ins"} /\ mu # "free") \/ EdBlockedOnOutput

\* the reset listener waits for the mutex
RlBlocked == rlpc = "lock" /\ mu # "free"

\* C33: with the stream open and stdout accepting, whenever a goroutine is
\* blocked on a full queue or on the mutex of the editor, some goroutine of
\* the pipeline has a step to take; and a handler blocked at its send of
\* the marker on the full byte queue gets to send it.
C33_NoDeadlockAndMarkerGetsSent ==
    /\ []((CtrlBlocked \/ BsBlocked \/ EdBlocked \/ RlBlocked)
            => ENABLED (CtrlRest \/ BsLoop \/ EdLoop \/ RlLoop \/ RcLoop
                          \/ RrLoop))
    /\ (CtrlBlocked ~> ~CtrlBlocked)

\* the handler is blocked at its send while the loop of the editor waits for
\* the mutex that a reset holds
C33_Witness == CtrlBlocked /\ edpc = "ins" /\ mu = "reset"

(***************************************************************************)
(* commandFifoReader and recordCreator together, as in                     *)
(* TestRecordCreatorReset: the command stream is written to the FIFO, the  *)
(* outputs are sent on commandOutputChan by a driver (cycle counts them,   *)
(* the k-th is the digit k), and a reset token may be offered to           *)
(* recordCreator at any moment.  The clock stays within the years json     *)
(* accepts, so every record is written (SpecErr has the other case).       *)
(***************************************************************************)
MaxPairLen == 4
MaxPairOutputs == 3

PairBytes == {LF, 99, 100}

InitPair ==
    /\ InitProgram
    /\ script \in UNION { [1..n -> PairBytes] : n \in 0..MaxPairLen }
    /\ fed = <<>> /\ outs = <<>>
    /\ shpc = "off" /\ cycle = 0 /\ synced = TRUE

\* `commandOutputChan <- output` of the test
DrvOutput ==
    /\ cycle < MaxPairOutputs
    /\ Len(commandOutputChan) < OutputChanCap
    /\ commandOutputChan' = Append(commandOutputChan, <<48 + cycle + 1>>)
    /\ cycle' = cycle + 1
    /\ UNCHANGED <<reading, recordID, resetChan, recordCreatorResetChan,
                   scriptFifoByteChan, byteClosed, outClosed, commandChan,
                   stdout, ctrlVars, bsVars, csVars, edVars, mu, rlpc, rcVars,
                   driverVars, shpc, synced, histVars>>

NextPair ==
    \/ CmdWrite
    \/ (commandFifo # <<>> /\ CsRead(Head(commandFifo), Tail(commandFifo)))
    \/ CsSend
    \/ DrvOutput \/ DrvCreatorReset
    \/ RcRecv \/ RcEmit \/ RrRecv \/ RrDrainOut \/ RrDrainCmd

SpecPair == InitPair /\ [][NextPair]_vars

\* the commands of the records written, the empty ones left out
TakenCommands ==
    SelectSeq([i \in 1..Len(stdout) |-> stdout[i].command],
              LAMBDA c : c # <<>>)

\* the commands commandFifoReader has completed so far
CompletedCommands == LinesOf(SubSeq(fed, 1, nCmdBytes), <<>>)

\* the commands that wait: in commandChan, or in the hand of the reader
WaitingCommands ==
    commandChan \o (IF cspc = "send" THEN <<commandBuffer>> ELSE <<>>)

\* a record is written by this step
RecordStep == Len(stdout') = Len(stdout) + 1

\* C34: the commands of the records, then those that wait, are commands the
\* reader completed, in its order and each at most once, and all of them
\* while no reset token was offered to recordCreator; a record takes the
\* command at the head of commandChan when one waits there (whatever the
\* output, an earlier one having gone out with the empty command) and the
\* empty command otherwise; a command leaves commandChan only into the
\* record written by that step or by the drain of a reset.
C34_CommandsPairedInOrder ==
    /\ [](IsSubseq(TakenCommands \o WaitingCommands, CompletedCommands))
    /\ []((rrpc = "idle" /\ recordCreatorResetChan = 0)
            => TakenCommands \o WaitingCommands = CompletedCommands)
    /\ [][RecordStep =>
            LET rec == stdout'[Len(stdout')]
            IN IF commandChan # <<>>
               THEN rec.command = Head(commandChan)
                      /\ commandChan' = Tail(commandChan)
               ELSE rec.command = <<>> /\ commandChan' = commandChan]_vars
    /\ [][Len(commandChan') < Len(commandChan)
            => (RecordStep \/ rrpc = "drain_cmd")]_vars

\* the command "c" was completed after the first output had gone out with
\* the empty command: the second record carries it, the third has none
C34_Witness ==
    /\ script = <<99, LF>>
    /\ rrpc = "idle" /\ recordCreatorResetChan = 0
    /\ Len(stdout) = 3
    /\ stdout[1].command = <<>> /\ stdout[1].output = <<49>>
    /\ stdout[2].command = <<99>> /\ stdout[2].output = <<50>>
    /\ stdout[3].command = <<>> /\ stdout[3].output = <<51>>

(***************************************************************************)
(* The three queues and their producers: the whole pipeline as in Spec,    *)
(* with a command stream written at any moment too.                        *)
(***************************************************************************)
MaxFullSignals == 2
MaxFullBytes == 2
MaxFullCmdBytes == 4

\* the bytes of the command stream: a letter, or LF
FullCmdBytes == {99, LF}

NextFull ==
    \/ (nSignals < MaxFullSignals /\ CtrlStart(sigs))
    \/ (nSignals < MaxFullSignals /\ CtrlStop(sigs))
    \/ (nSignals < MaxFullSignals /\ CtrlReset(sigs))
    \/ CtrlStopSend \/ CtrlResetEditor \/ CtrlResetCreator \/ CtrlResetSend
    \/ (nBytes < MaxFullBytes /\ \E b \in StreamBytes : BsRead(b, scriptFifo))
    \/ BsCheck \/ BsSend
    \/ (nCmdBytes < MaxFullCmdBytes
          /\ \E c \in FullCmdBytes : CsRead(c, commandFifo))
    \/ CsSend
    \/ EdRecv \/ EdEofLock \/ EdEofSend \/ EdEsc \/ EdIns
    \/ RlRecv \/ RlLock \/ RlDrain \/ RlDone
    \/ RcRecv \/ RcEmit \/ RrRecv \/ RrDrainOut \/ RrDrainCmd

SpecFull == Init /\ [][NextFull]_vars

\* q2 is q after a send at its tail, after a receive at its head, or q
FifoStep(q, q2) ==
    \/ q2 = q
    \/ (q # <<>> /\ q2 = Tail(q))
    \/ (q2 # <<>> /\ q = SubSeq(q2, 1, Len(q2) - 1))

\* commandFifoReader stands at its send and the command queue is full
CsBlocked == cspc = "send" /\ Len(commandChan) >= CommandChanCap

\* C35: no queue holds more than its capacity (that of the byte queue is
\* ByteChanCap here, 1024 in the program); a producer that faces a full
\* queue has no step and keeps what it has to send; every step changes a
\* queue at most by one send at its tail or one receive at its head, and
\* what a producer sends is what it held.
C35_QueuesBoundedAndProducersBlock ==
    /\ [](/\ Len(scriptFifoByteChan) <= ByteChanCap
          /\ Len(commandOutputChan) <= OutputChanCap
          /\ Len(commandChan) <= CommandChanCap)
    /\ [](/\ CtrlBlocked => ~ENABLED (CtrlStopSend \/ CtrlResetSend)
          /\ BsBlocked => ~ENABLED BsSend
          /\ EdBlockedOnOutput => ~ENABLED EdEofSend
          /\ CsBlocked => ~ENABLED CsSend)
    /\ [][/\ CtrlBlocked => ctrlpc' = ctrlpc
          /\ BsBlocked => (bspc' = bspc /\ bsbuf' = bsbuf)
          /\ EdBlockedOnOutput => (edpc' = edpc /\ buffer' = buffer)
          /\ CsBlocked => (cspc' = cspc /\ commandBuffer' = commandBuffer)]_vars
    /\ [][/\ FifoStep(scriptFifoByteChan, scriptFifoByteChan')
          /\ FifoStep(commandOutputChan, commandOutputChan')
          /\ FifoStep(commandChan, commandChan')]_vars
    /\ [][/\ (bspc = "send" /\ bspc' = "read")
               => scriptFifoByteChan' = Append(scriptFifoByteChan, bsbuf)
          /\ (ctrlpc \in {"usr2_send", "hup_send"} /\ ctrlpc' = "idle")
               => scriptFifoByteChan' = Append(scriptFifoByteChan, EOF)
          /\ (edpc = "eof_send" /\ edpc' = "recv")
               => commandOutputChan' = Append(commandOutputChan, buffer)
          /\ (cspc = "send" /\ cspc' = "read")
               => commandChan' = Append(commandChan, commandBuffer)]_vars

\* the byte queue and the command queue are full, the handler waits at its
\* send of the marker and commandFifoReader at its send of a command
C35_Witness == CtrlBlocked /\ CsBlocked

(***************************************************************************)
(* commandFifoReader and the writers of the command FIFO, main.go:266-304. *)
(* A writer opens the FIFO, writes some bytes of the command stream and    *)
(* closes it; shpc says whether a writer has the FIFO open and cycle       *)
(* counts the writers so far.  f.Read returns io.EOF when the FIFO is      *)
(* empty and no writer has it open; os.OpenFile returns once a writer has  *)
(* opened it.  The first writer has opened the FIFO in the initial state.  *)
(* A consumer receives from commandChan as recordCreator does.             *)
(***************************************************************************)
MaxSessions == 3
MaxReopenLen == 4

ReopenBytes == {99, 100, LF}

InitReopen ==
    /\ InitProgram
    /\ script \in UNION { [1..n -> ReopenBytes] : n \in 0..MaxReopenLen }
    /\ fed = <<>> /\ outs = <<>>
    /\ shpc = "cmd_open" /\ cycle = 1 /\ synced = TRUE

ReopenFrame ==
    UNCHANGED <<sharedVars, ctrlVars, bsVars, edVars, mu, rlpc, rcVars, outs,
                synced, histVars>>

\* a writer writes the next byte of the command stream
ShWriteByte ==
    /\ shpc = "cmd_open"
    /\ script # <<>>
    /\ commandFifo' = Append(commandFifo, Head(script))
    /\ fed' = Append(fed, Head(script))
    /\ script' = Tail(script)
    /\ UNCHANGED <<shpc, cycle, cspc, commandBuffer>>
    /\ ReopenFrame

\* the writer closes the FIFO
ShCloseFifo ==
    /\ shpc = "cmd_open"
    /\ shpc' = "off"
    /\ UNCHANGED <<cycle, script, fed, csVars>>
    /\ ReopenFrame

\* the next writer opens the FIFO
ShOpenFifo ==
    /\ shpc = "off"
    /\ cycle < MaxSessions
    /\ shpc' = "cmd_open"
    /\ cycle' = cycle + 1
    /\ UNCHANGED <<script, fed, csVars>>
    /\ ReopenFrame

\* a variant that starts each session with an empty buffer
BufferAtReopen_Mut(buf) == <<>>

\* line 265: commandBuffer is declared outside the loop that re-opens the
\* FIFO, and lines 277-281 and 303 do not touch it
BufferAtReopen(buf) == buf

\* lines 277-281 and 303: f.Read returns io.EOF, the handle is closed
CsEof ==
    /\ cspc = "read"
    /\ commandFifo = <<>>
    /\ shpc = "off"
    /\ cspc' = "open"
    /\ commandBuffer' = BufferAtReopen(commandBuffer)
    /\ UNCHANGED <<commandFifo, script, fed, shpc, cycle, nCmdBytes>>
    /\ UNCHANGED <<sharedVars, ctrlVars, bsVars, edVars, mu, rlpc, rcVars,
                   outs, synced, lastHandled, nSignals, nBytes, stopHadBytes,
                   admittedSince, resetSeen, swallowed, resetDone,
                   sinceReset>>

\* line 268: os.OpenFile returns
CsOpen ==
    /\ cspc = "open"
    /\ shpc = "cmd_open"
    /\ cspc' = "read"
    /\ UNCHANGED <<commandFifo, commandBuffer, script, fed, shpc, cycle>>
    /\ ReopenFrame

NextReopen ==
    \/ ShWriteByte \/ ShCloseFifo \/ ShOpenFifo
    \/ (commandFifo # <<>> /\ CsRead(Head(commandFifo), Tail(commandFifo)))
    \/ CsSend \/ CsEof \/ CsOpen
    \/ CmdRecv

SpecReopen == InitReopen /\ [][NextReopen]_vars

\* the bytes of bs after its last LF; run is the run being read
RECURSIVE PartialLine(_, _)
PartialLine(bs, run) ==
    IF bs = <<>> THEN run
    ELSE IF Head(bs) = LF THEN PartialLine(Tail(bs), <<>>)
    ELSE PartialLine(Tail(bs), Append(run, Head(bs)))

\* C36: wherever the writers closed and re-opened the FIFO, the commands
\* sent are the non-empty runs that a LF ends among all the bytes read, and
\* the reader holds the bytes read since the last LF; the end of a stream
\* sends nothing and leaves those bytes in the buffer.
C36_PartialLineKeptAcrossReopen ==
    /\ [](LET read == SubSeq(fed, 1, nCmdBytes)
          IN /\ outs \o commandChan
                     \o (IF cspc = "send" THEN <<commandBuffer>> ELSE <<>>)
                  = LinesOf(read, <<>>)
             /\ cspc # "send" => commandBuffer = PartialLine(read, <<>>))
    /\ [][(cspc = "read" /\ cspc' = "open")
            => UNCHANGED <<commandBuffer, commandChan, outs>>]_vars

\* the writer of "c" has closed, the reader has met the end of the stream
\* with "c" in its buffer and waits for the next writer; nothing was sent
C36_Witness ==
    /\ fed = <<99>> /\ script = <<100, LF>>
    /\ cspc = "open" /\ shpc = "off"
    /\ commandBuffer = <<99>>
    /\ commandChan = <<>> /\ outs = <<>>

(***************************************************************************)
(* The buffer of the editor at the close of the byte queue (SpecClose).    *)
(***************************************************************************)
\* an output is put on commandOutputChan by this step
OutputStep ==
    /\ commandOutputChan' # <<>>
    /\ commandOutputChan = SubSeq(commandOutputChan', 1,
                                  Len(commandOutputChan') - 1)

\* C37: the step that closes the output queue sends nothing and leaves the
\* buffer as it is, whatever it holds; nothing is sent once the queue is
\* closed; an output is sent only by the loop holding a marker 0x04 that it
\* received from the byte queue, and is the buffer at that moment.  So bytes
\* that no 0x04 followed are in no output and in no record.
C37_BufferLeftAtCloseIsNeverEmitted ==
    /\ [][(~outClosed /\ outClosed')
            => (edpc = "recv" /\ byteClosed /\ scriptFifoByteChan = <<>>
                  /\ UNCHANGED <<commandOutputChan, buffer, stdout>>)]_vars
    /\ [][outClosed => ~OutputStep]_vars
    /\ [][OutputStep
            => (edpc = "eof_send"
                  /\ commandOutputChan' = Append(commandOutputChan, buffer))]_vars
    /\ [][(edpc # "eof" /\ edpc' = "eof")
            => (scriptFifoByteChan # <<>> /\ Head(scriptFifoByteChan) = EOF)]_vars
    /\ [](outClosed => edpc = "done")

\* the stream ended after "a" was admitted and no marker was sent: both
\* queues are closed, "a" is still in the buffer and no record was written
C37_Witness ==
    /\ byteClosed /\ outClosed
    /\ edpc = "done" /\ rcpc = "done"
    /\ buffer = <<97>>
    /\ stdout = <<>> /\ commandOutputChan = <<>>

====
